---- MODULE Spec2Model ----
(***************************************************************************)
(* Panic-safe concurrent task execution in ocrosby/go-lab:                 *)
(*   - the worker pool of examples/02-intermediate/panic-handling/after    *)
(*   - the HTTP server of examples/02-intermediate/http-panic-handling     *)
(*   - the helpers SafeGo (worker pool package) and safeGo (HTTP server)   *)
(* These are separate programs.  The variable prog says which of them a    *)
(* behaviour runs; the variables of the others keep their initial values.  *)
(***************************************************************************)
EXTENDS Integers, Sequences, FiniteSets, Bags, TLC

\* ------------------------------------------------------------------ bounds
MaxWorkers == 2
MaxJobs == 2
ResultsCap == 1
MaxRequests == 2
MaxObjects == 3
MaxCallers == 2
MaxClock == 2

\* ------------------------------------------------------- program constants
JobsCap == 100
StatusOK == 200
StatusBadRequest == 400
StatusInternalServerError == 500

VARIABLES
    prog,          \* the program this behaviour runs: "pool", "before", "http",
                   \* "bserver", "safego", "repo" or "service"
    \* ---- worker pool (package after, worker.go)
    backlog,       \* number of jobs submitted before the first state
    numWorkers,    \* WorkerPool.numWorkers
    startIdx,      \* loop index i of Start; numWorkers once Start returned
    pc,            \* position of each worker goroutine
    job,           \* local variable job of each worker
    result,        \* local variable result of each worker
    jobs,          \* buffer of the channel WorkerPool.jobs
    closed,        \* the channel WorkerPool.jobs has been closed
    ctxDone,       \* ctx.Done() is closed: the cancellation signal fired
    wg,            \* counter of WorkerPool.wg
    results,       \* buffer of the results channel given to Start
    published,     \* every JobResult ever sent on results, in order
    handlerCalls,  \* bag of the invocations of WorkerPool.panicHandler
    submitted,     \* every Job accepted by Submit, in order
    waitState,     \* the caller of Wait: "idle", "waiting", "returned"
    submitPanic,   \* a Submit on the closed channel has panicked
    observedDone,  \* workers that returned through the ctx.Done() case
    inFlight,      \* jobs in a worker's hands when the signal fired, until published
    \* ---- HTTP server (package after, server.go)
    reqPc,         \* position of the goroutine serving each request
    reqHandler,    \* the handler each request is routed to
    reqOps,        \* calls made on each request's ResponseWriter, in order
    reqRec,        \* value returned by recover() in withPanicRecovery
    reqEscaped,    \* panic value that left the middleware call, if any
    httpCalls,     \* bag of the invocations of Server.panicHandler
    bgPc,          \* position of the goroutine a handler started with safeGo
    bgCalls,       \* bag of the invocations of the callback given to safeGo
    \* ---- one call of SafeGo (worker.go) or safeGo (server.go)
    sgImpl,        \* the helper called: "SafeGo" or "safeGo"
    sgFn,          \* the unit of work fn given to it
    sgHasHandler,  \* the panicHandler argument is not nil
    sgCaller,      \* position of the goroutine that calls the helper
    sgPc,          \* position of the goroutine the helper starts
    sgPanicking,   \* the panic that is unwinding the started goroutine
    sgCalls,       \* values the panicHandler has been invoked with, in order
    sgLog,         \* values logged by the helper, in order
    sgSeen,        \* what the caller read in panicHandlerCalled, once it has
    \* ---- in-memory user repository and the user service on it
    heap,          \* the User objects allocated so far; an address is an index
    users,         \* memoryUserRepository.users: ID -> address of the stored User
    held,          \* addresses of the User objects the callers hold pointers to
    origin,        \* where each object comes from: built by a caller, returned
                   \* by GetByID, GetByEmail or List, or made by the repository
    passed,        \* objects that were passed to Create or Update
    svcPc,         \* position of each caller inside CreateUser
    svcArgs,       \* email and name each caller gave to CreateUser
    svcRet,        \* what CreateUser returned to each caller
    clock          \* time.Now().UnixNano()

poolVars == <<backlog, numWorkers, startIdx, pc, job, result, jobs, closed, ctxDone,
              wg, results, published, handlerCalls, submitted, waitState,
              submitPanic, observedDone, inFlight>>

httpVars == <<reqPc, reqHandler, reqOps, reqRec, reqEscaped, httpCalls, bgPc,
              bgCalls>>

sgVars == <<sgImpl, sgFn, sgHasHandler, sgCaller, sgPc, sgPanicking, sgCalls,
            sgLog, sgSeen>>

repoVars == <<heap, users, held, origin, passed, svcPc, svcArgs, svcRet, clock>>

vars == <<prog, poolVars, httpVars, sgVars, repoVars>>

\* ------------------------------------------------------------- pool: data
WorkerIds == 0 .. (MaxWorkers - 1)
Workers == 0 .. (numWorkers - 1)

JobData == {"job", "error", "panic"}

\* a formatted string: fmt.Sprintf(text, w, j)
Str(text, w, j) == [text |-> text, w |-> w, j |-> j]
EmptyStr == Str("", 0, 0)
NilErr == Str("<nil>", 0, 0)

Job(id, data) == [ID |-> id, Data |-> data]
NoJob == Job(0, "")

JobResult(j, err, isPanic, info) ==
    [Job |-> j, Err |-> err, IsPanic |-> isPanic, PanicInfo |-> info]
NoResult == JobResult(NoJob, NilErr, FALSE, EmptyStr)

\* fmt.Errorf("panic recovered: %v", r) for a string r
PanicErr(r) == Str("panic recovered: Worker %d panicked on job %d", r.w, r.j)

\* outcome of processJob: a panic with a value, or a returned JobResult
processJob(workerID, j) ==
    IF j.Data = "panic"
    THEN [panicked |-> TRUE,
          value |-> Str("Worker %d panicked on job %d", workerID, j.ID),
          result |-> NoResult]
    ELSE IF j.Data = "error"
    THEN [panicked |-> FALSE, value |-> EmptyStr,
          result |-> JobResult(j,
                        Str("worker %d failed to process job %d", workerID, j.ID),
                        FALSE, EmptyStr)]
    ELSE [panicked |-> FALSE, value |-> EmptyStr,
          result |-> JobResult(j, NilErr, FALSE, EmptyStr)]

\* mutant: the result is not a named return value, so the JobResult built in
\* the deferred function is lost and the zero JobResult is returned
processJobWithRecoveryUnnamed(workerID, j) ==
    LET r == processJob(workerID, j) IN
    IF r.panicked
    THEN [result |-> NoResult,
          calls |-> SetToBag({[recovered |-> r.value, workerID |-> workerID,
                                job |-> j]})]
    ELSE [result |-> r.result, calls |-> EmptyBag]

\* mutant: the deferred function builds the JobResult but does not call
\* wp.panicHandler
processJobWithRecoveryNoHandler(workerID, j) ==
    LET r == processJob(workerID, j) IN
    IF r.panicked
    THEN [result |-> JobResult(j, PanicErr(r.value), TRUE, r.value),
          calls |-> EmptyBag]
    ELSE [result |-> r.result, calls |-> EmptyBag]

\* mutant: the deferred function also reports a returned application error
processJobWithRecoveryOnError(workerID, j) ==
    LET r == processJob(workerID, j) IN
    IF r.panicked
    THEN [result |-> JobResult(j, PanicErr(r.value), TRUE, r.value),
          calls |-> SetToBag({[recovered |-> r.value, workerID |-> workerID,
                                job |-> j]})]
    ELSE [result |-> r.result,
          calls |-> IF r.result.Err # NilErr
                    THEN SetToBag({[recovered |-> r.result.Err,
                                    workerID |-> workerID, job |-> j]})
                    ELSE EmptyBag]

\* mutant: the deferred function leaves Err unset
processJobWithRecoveryNoErr(workerID, j) ==
    LET r == processJob(workerID, j) IN
    IF r.panicked
    THEN [result |-> JobResult(j, NilErr, TRUE, r.value),
          calls |-> SetToBag({[recovered |-> r.value, workerID |-> workerID,
                                job |-> j]})]
    ELSE [result |-> r.result, calls |-> EmptyBag]

\* mutant: the deferred function starts the panic handler with a go
\* statement, so no invocation has completed when the result is returned
processJobWithRecoveryAsync(workerID, j) ==
    LET r == processJob(workerID, j) IN
    IF r.panicked
    THEN [result |-> JobResult(j, PanicErr(r.value), TRUE, r.value),
          calls |-> EmptyBag]
    ELSE [result |-> r.result, calls |-> EmptyBag]

\* processJobWithRecovery: the result it returns and the invocations of the
\* panic handler it makes
processJobWithRecovery(workerID, j) ==
    LET r == processJob(workerID, j) IN
    IF r.panicked
    THEN [result |-> JobResult(j, PanicErr(r.value), TRUE, r.value),
          calls |-> SetToBag({[recovered |-> r.value, workerID |-> workerID,
                                job |-> j]})]
    ELSE [result |-> r.result, calls |-> EmptyBag]

\* ------------------------------------------------------------- pool: Init
\* NewWorkerPool(n, handler), before Start
PoolFields(n) ==
    /\ backlog = 0
    /\ numWorkers = n
    /\ startIdx = 0
    /\ pc = [w \in WorkerIds |-> "unborn"]
    /\ job = [w \in WorkerIds |-> NoJob]
    /\ result = [w \in WorkerIds |-> NoResult]
    /\ jobs = <<>>
    /\ closed = FALSE
    /\ ctxDone = FALSE
    /\ wg = 0
    /\ results = <<>>
    /\ published = <<>>
    /\ handlerCalls = EmptyBag
    /\ submitted = <<>>
    /\ waitState = "idle"
    /\ submitPanic = FALSE
    /\ observedDone = {}
    /\ inFlight = {}

\* ------------------------------------------------------------- http: data
ReqIds == 1 .. MaxRequests

\* a Go value given to panic: an error with its Unwrap chain of identities
\* (outermost first), or a value of another type with its text
Value(isError, chain) == [isError |-> isError, chain |-> chain]
NoValue == Value(FALSE, <<>>)
ErrAbortHandler == Value(TRUE, <<"http.ErrAbortHandler">>)
StrValue(text) == Value(FALSE, <<text>>)
\* fmt.Errorf("...: %w", err)
Wrap(id, err) == Value(TRUE, <<id>> \o err.chain)

\* errors.Unwrap
Unwrap(err) == Value(TRUE, Tail(err.chain))

\* errors.Is(err, target): walks the Unwrap chain comparing identities
RECURSIVE errorsIs(_, _)
errorsIs(err, target) ==
    IF err.chain = <<>> THEN FALSE
    ELSE IF err = target THEN TRUE
    ELSE errorsIs(Unwrap(err), target)

\* mutant: the sentinel is compared by identity, not through the chain
IsAbortIdentity(rec) == rec = ErrAbortHandler

\* err, ok := rec.(error); ok && errors.Is(err, http.ErrAbortHandler)
IsAbort(rec) == rec.isError /\ errorsIs(rec, ErrAbortHandler)

\* one call on a ResponseWriter, and who made it
Op(by, op, key, val, code) ==
    [by |-> by, op |-> op, key |-> key, val |-> val, code |-> code]
SetHeader(by, key, val) == Op(by, "Set", key, val, 0)
WriteHeader(by, code) == Op(by, "WriteHeader", "", "", code)
Write(by, text) == Op(by, "Write", "", text, 0)

\* the response a recorder holds after a sequence of calls: the first
\* WriteHeader fixes the status and the headers, a Write before any
\* WriteHeader implies WriteHeader(200)
EmptyResponse ==
    [code |-> StatusOK, wroteHeader |-> FALSE, live |-> {}, header |-> {},
     body |-> <<>>]

ApplyOp(resp, o) ==
    LET sent == IF resp.wroteHeader THEN resp
                ELSE [resp EXCEPT !.code = IF o.op = "WriteHeader" THEN o.code
                                            ELSE StatusOK,
                                  !.wroteHeader = TRUE,
                                  !.header = resp.live]
    IN  CASE o.op = "Set" ->
                [resp EXCEPT !.live = {kv \in @ : kv[1] # o.key}
                                        \cup {<<o.key, o.val>>}]
          [] o.op = "WriteHeader" -> sent
          [] OTHER -> [sent EXCEPT !.body = Append(@, o.val)]

RECURSIVE ResponseFrom(_, _)
ResponseFrom(resp, ops) ==
    IF ops = <<>> THEN resp
    ELSE ResponseFrom(ApplyOp(resp, Head(ops)), Tail(ops))

Response(ops) ==
    LET r == ResponseFrom(EmptyResponse, ops)
    IN  [code |-> r.code, header |-> r.header, body |-> r.body]

\* setupRoutes: the pattern of each route and the handler it wraps
Paths == {"/health", "/panic", "/slow", "/json", "/abort"}
RouteTable ==
    [p \in Paths |->
        CASE p = "/health" -> "handleHealth"
          [] p = "/panic" -> "handlePanic"
          [] p = "/slow" -> "handleSlow"
          [] p = "/json" -> "handleJSON"
          [] OTHER -> "handleAbort"]

\* request bodies: not JSON; {"data":"test"}; {"trigger_panic":true};
\* {"trigger_panic":"yes"}
Bodies == {"invalid", "data", "trigger", "triggerNotBool"}
BodiesOf(path) == IF path = "/json" THEN Bodies ELSE {""}
\* json.NewDecoder(r.Body).Decode(&data) returns nil
DecodeOK(body) == body # "invalid"
\* trigger, ok := data["trigger_panic"].(bool); ok && trigger
TriggerPanic(body) == body = "trigger"

\* handlers given to withPanicRecovery directly, beside the five routes
TestHandlers ==
    {"panicWrappedAbort", "panicError", "panicInt", "panicLookalike",
     "writeThenPanic", "writeThenAbort"}

Request(name, path, body) == [name |-> name, path |-> path, body |-> body]
NoRequest == Request("", "", "")

Outcome(ops, spawn, panicValue) ==
    [ops |-> ops, spawn |-> spawn, panicValue |-> panicValue]

\* what a handler does with its ResponseWriter, whether it starts a
\* goroutine with safeGo, and the value it panics with (NoValue: it returns)
Handle(h) ==
    CASE h.name = "handleHealth" ->
            Outcome(<<WriteHeader("handler", StatusOK),
                      Write("handler", "{message:Server is healthy,status:ok}")>>,
                    FALSE, NoValue)
      [] h.name = "handlePanic" ->
            Outcome(<<>>, FALSE, StrValue("intentional panic in handler"))
      [] h.name = "handleSlow" ->
            Outcome(<<WriteHeader("handler", StatusOK),
                      Write("handler", "{message:Started background job,status:ok}")>>,
                    TRUE, NoValue)
      [] h.name = "handleJSON" ->
            IF ~DecodeOK(h.body)
            THEN \* http.Error(w, "Invalid JSON", http.StatusBadRequest)
                 Outcome(<<SetHeader("handler", "Content-Type",
                                     "text/plain; charset=utf-8"),
                           SetHeader("handler", "X-Content-Type-Options", "nosniff"),
                           WriteHeader("handler", StatusBadRequest),
                           Write("handler", "Invalid JSON")>>,
                         FALSE, NoValue)
            ELSE IF TriggerPanic(h.body)
            THEN Outcome(<<>>, FALSE,
                         StrValue("panic triggered by request: map[trigger_panic:true]"))
            ELSE Outcome(<<WriteHeader("handler", StatusOK),
                           Write("handler",
                                 "{message:Data processed successfully,status:ok}")>>,
                         FALSE, NoValue)
      [] h.name = "handleAbort" -> Outcome(<<>>, FALSE, ErrAbortHandler)
      [] h.name = "panicWrappedAbort" ->
            Outcome(<<>>, FALSE, Wrap("wrapped", ErrAbortHandler))
      [] h.name = "panicError" ->
            Outcome(<<>>, FALSE, Wrap("wrapped", Value(TRUE, <<"boom">>)))
      [] h.name = "panicInt" -> Outcome(<<>>, FALSE, StrValue("42"))
      [] h.name = "panicLookalike" ->
            \* a string with the text of the sentinel: not an error
            Outcome(<<>>, FALSE, StrValue("http.ErrAbortHandler"))
      [] h.name = "writeThenPanic" ->
            Outcome(<<WriteHeader("handler", StatusOK), Write("handler", "partial")>>,
                    FALSE, StrValue("late panic"))
      [] h.name = "writeThenAbort" ->
            Outcome(<<WriteHeader("handler", StatusOK), Write("handler", "partial")>>,
                    FALSE, ErrAbortHandler)
      [] OTHER -> Outcome(<<>>, FALSE, NoValue)

\* the response withPanicRecovery writes for an intercepted panic
ErrorBody == "{error:Internal Server Error,status:error}"

\* mutant: the status is never written, so the body goes out with 200
ErrorResponseOpsNoStatus ==
    <<SetHeader("middleware", "Content-Type", "application/json"),
      Write("middleware", ErrorBody)>>

ErrorResponseOps ==
    <<SetHeader("middleware", "Content-Type", "application/json"),
      WriteHeader("middleware", StatusInternalServerError),
      Write("middleware", ErrorBody)>>

\* fmt.Sprintf("Panic: %v", rec): the text of the value, of the outermost
\* error for a chain
Sprint(rec) == IF rec.chain = <<>> THEN "<nil>" ELSE rec.chain[1]

\* mutant: the response tells the client the panic value
ErrorResponseForLeak(rec) ==
    <<SetHeader("middleware", "Content-Type", "text/plain; charset=utf-8"),
      SetHeader("middleware", "X-Content-Type-Options", "nosniff"),
      WriteHeader("middleware", StatusInternalServerError),
      Write("middleware", Sprint(rec))>>

\* the calls the deferred function makes on the ResponseWriter after it has
\* recovered rec: none of them has rec as an argument
ErrorResponseFor(rec) == ErrorResponseOps

\* mutant: every invocation is made with the first request
PanicCallShared(rec, r, path) ==
    SetToBag({[recovered |-> rec, req |-> 1, path |-> path]})

\* s.panicHandler(rec, r): the invocation it adds
PanicCall(rec, r, path) ==
    SetToBag({[recovered |-> rec, req |-> r, path |-> path]})

\* the panic of the goroutine handleSlow starts
BackgroundPanic == StrValue("panic in background goroutine")

\* NewServer(handler), no request yet
HttpFields ==
    /\ reqPc = [r \in ReqIds |-> "idle"]
    /\ reqHandler = [r \in ReqIds |-> NoRequest]
    /\ reqOps = [r \in ReqIds |-> <<>>]
    /\ reqRec = [r \in ReqIds |-> NoValue]
    /\ reqEscaped = [r \in ReqIds |-> NoValue]
    /\ httpCalls = EmptyBag
    /\ bgPc = [r \in ReqIds |-> "none"]
    /\ bgCalls = EmptyBag

\* ----------------------------------------------------------- safego: data
\* the units of work: fn returns; fn sends on the unbuffered channel done
\* and returns; fn panics; fn panics after deferring a send on done
FnKinds == {"return", "sendDone", "panic", "deferDonePanic"}
Fn(kind, value) == [kind |-> kind, value |-> value]
NoFn == Fn("", NoValue)

\* values a unit of work panics with
PanicValues ==
    {StrValue("test panic"), Value(TRUE, <<"some error">>), ErrAbortHandler,
     Wrap("wrapped", ErrAbortHandler)}

Units ==
    {Fn(k, NoValue) : k \in {"return", "sendDone"}}
        \cup {Fn(k, v) : k \in {"panic", "deferDonePanic"}, v \in PanicValues}

\* what the deferred function of a helper does with the value r of recover():
\* the values it passes to panicHandler, those it logs, the value it
\* re-raises
Deferred(calls, logs, reraise) ==
    [calls |-> calls, logs |-> logs, reraise |-> reraise]

\* mutant: SafeGo without the test r != nil
SafeGoDeferredAlways(r, hasHandler) ==
    IF hasHandler THEN Deferred(<<r>>, <<>>, NoValue)
    ELSE Deferred(<<>>, <<r>>, NoValue)

\* the deferred function of SafeGo (worker pool package)
SafeGoDeferred(r, hasHandler) ==
    IF r = NoValue THEN Deferred(<<>>, <<>>, NoValue)
    ELSE IF hasHandler THEN Deferred(<<r>>, <<>>, NoValue)
    ELSE Deferred(<<>>, <<r>>, NoValue)

\* mutant: safeGo without the test for the sentinel
safeGoDeferredNoSentinel(rec, hasHandler) ==
    IF rec = NoValue THEN Deferred(<<>>, <<>>, NoValue)
    ELSE IF hasHandler THEN Deferred(<<rec>>, <<>>, NoValue)
    ELSE Deferred(<<>>, <<rec>>, NoValue)

\* the deferred function of safeGo (HTTP server)
safeGoDeferred(rec, hasHandler) ==
    IF rec = NoValue THEN Deferred(<<>>, <<>>, NoValue)
    ELSE IF IsAbort(rec) THEN Deferred(<<>>, <<>>, rec)
    ELSE IF hasHandler THEN Deferred(<<rec>>, <<>>, NoValue)
    ELSE Deferred(<<>>, <<rec>>, NoValue)

\* a helper that has not been called
SafeGoFields(impl, fn, hasHandler) ==
    /\ sgImpl = impl
    /\ sgFn = fn
    /\ sgHasHandler = hasHandler
    /\ sgCaller = "start"
    /\ sgPc = "none"
    /\ sgPanicking = NoValue
    /\ sgCalls = <<>>
    /\ sgLog = <<>>
    /\ sgSeen = "unread"

SafeGoIdle == SafeGoFields("SafeGo", NoFn, FALSE)

\* --------------------------------------------------- user repository: data
UserIds == {"test-id", "other-id"}
Emails == {"a@example.com", "b@example.com"}
Names == {"Original Name", "Modified Name"}

\* a domain.User; CreatedAt and UpdatedAt are value fields like Name and are
\* left out
User(id, email, name) == [ID |-> id, Email |-> email, Name |-> name]

ErrUserAlreadyExists == "user already exists"
ErrInvalidInput == "invalid input"
\* fmt.Errorf("failed to create user: %w", err)
WrapCreate(err) == <<"failed to create user: %w", err>>

\* the address a new object is placed at: objects are numbered in the order
\* of their allocation
alloc(h) == Len(h) + 1

\* mutant: copyUser hands out the pointer it was given
copyUserAlias(h, a) == [heap |-> h, addr |-> a]

\* copyUser: userCopy := *user; return &userCopy
copyUser(h, a) == [heap |-> Append(h, h[a]), addr |-> alloc(h)]

\* copyUser applied to each pointer of a slice, in order
RECURSIVE copyEach(_, _)
copyEach(h, as) ==
    IF as = <<>>
    THEN [heap |-> h, addrs |-> <<>>]
    ELSE LET c == copyUser(h, Head(as))
             rest == copyEach(c.heap, Tail(as)) IN
         [heap |-> rest.heap, addrs |-> <<c.addr>> \o rest.addrs]

\* the map r.users with the entry of id set to address a
MapSet(u, id, a) == [i \in (DOMAIN u) \cup {id} |-> IF i = id THEN a ELSE u[i]]
\* delete(r.users, id)
MapDelete(u, id) == [i \in (DOMAIN u) \ {id} |-> u[i]]

\* the orders in which a range over the map r.users can visit its keys
Orders(u) == {s \in [1 .. Cardinality(DOMAIN u) -> DOMAIN u] :
                 \A i, j \in DOMAIN s : i # j => s[i] # s[j]}

\* the keys List appends for one visiting order: those at the positions i
\* with i >= offset, while len(users) < limit
Page(order, limit, offset) ==
    [k \in 1 .. (IF Len(order) - offset < limit
                 THEN (IF Len(order) > offset THEN Len(order) - offset ELSE 0)
                 ELSE limit) |-> order[offset + k]]

\* v.emailRegex.MatchString(email)
emailRegexMatch(email) == email \in Emails

\* ValidateUserCreation(email, name) returns nil
ValidateUserCreation(email, name) == email # "" /\ emailRegexMatch(email) /\ name # ""

\* generateID: fmt.Sprintf("user_%d", time.Now().UnixNano())
generateID(now) == <<"user_%d", now>>

Callers == 1 .. MaxCallers

\* NewMemoryUserRepository(), and a service on it with no call in progress
RepoFields ==
    /\ heap = <<>>
    /\ users = [id \in {} |-> 0]
    /\ held = {}
    /\ origin = <<>>
    /\ passed = {}
    /\ svcPc = [c \in Callers |-> "idle"]
    /\ svcArgs = [c \in Callers |-> User("", "", "")]
    /\ svcRet = [c \in Callers |-> [user |-> 0, err |-> "none"]]
    /\ clock = 1

\* ------------------------------------------------------------------- Init
PoolInit ==
    /\ prog = "pool"
    /\ \E n \in 1 .. MaxWorkers : PoolFields(n)
    /\ HttpFields
    /\ SafeGoIdle
    /\ RepoFields

HttpInit ==
    /\ prog = "http"
    /\ PoolFields(1)
    /\ HttpFields
    /\ SafeGoIdle
    /\ RepoFields

\* a goroutine about to call SafeGo(fn, panicHandler) or safeGo(fn,
\* panicHandler)
SafeGoInit ==
    /\ prog = "safego"
    /\ PoolFields(1)
    /\ HttpFields
    /\ \E impl \in {"SafeGo", "safeGo"}, fn \in Units, hasHandler \in BOOLEAN :
          SafeGoFields(impl, fn, hasHandler)
    /\ RepoFields

Init == PoolInit \/ HttpInit \/ SafeGoInit

\* a pool of one worker, not started yet, on which Submit has returned
\* JobsCap - 1 times: NewWorkerPool(1, handler) and that many Submit calls
BacklogJobs == [i \in 1 .. (JobsCap - 1) |-> Job(i, "job")]

BacklogInit ==
    /\ prog = "pool"
    /\ backlog = Len(BacklogJobs)
    /\ numWorkers = 1
    /\ startIdx = 0
    /\ pc = [w \in WorkerIds |-> "unborn"]
    /\ job = [w \in WorkerIds |-> NoJob]
    /\ result = [w \in WorkerIds |-> NoResult]
    /\ jobs = BacklogJobs
    /\ closed = FALSE
    /\ ctxDone = FALSE
    /\ wg = 0
    /\ results = <<>>
    /\ published = <<>>
    /\ handlerCalls = EmptyBag
    /\ submitted = BacklogJobs
    /\ waitState = "idle"
    /\ submitPanic = FALSE
    /\ observedDone = {}
    /\ inFlight = {}
    /\ HttpFields
    /\ SafeGoIdle
    /\ RepoFields

\* ---------------------------------------------------------- pool: actions
\* mutant: the loop of Start runs once more
StartLoopInclusive == startIdx <= numWorkers

\* the condition of the loop of Start: i < wp.numWorkers
StartLoop == startIdx < numWorkers

\* one iteration of the loop of Start: wg.Add(1); go wp.worker(ctx, i, results)
StartSpawn ==
    /\ prog = "pool"
    /\ StartLoop
    /\ wg' = wg + 1
    /\ pc' = [pc EXCEPT ![startIdx] = "select"]
    /\ startIdx' = startIdx + 1
    /\ UNCHANGED <<httpVars, sgVars, repoVars>>
    /\ UNCHANGED <<prog, backlog, numWorkers, job, result, jobs, closed, ctxDone, results,
                   published, handlerCalls, submitted, waitState, submitPanic,
                   observedDone, inFlight>>

\* mutant: the channel takes one element more than its capacity
ChanFullOffByOne(q, cap) == Len(q) > cap

\* a send on a buffered channel blocks: its buffer holds cap elements
ChanFull(q, cap) == Len(q) >= cap

\* mutant: a sent job overtakes the jobs that wait in the buffer
EnqueueFront(q, j) == <<j>> \o q

\* the buffer of a channel after a send: a channel is first in, first out
Enqueue(q, j) == Append(q, j)

\* Submit: wp.jobs <- job, on the open channel
Submit(data) ==
    /\ prog = "pool"
    /\ ~closed
    /\ Len(submitted) < backlog + MaxJobs
    /\ ~ChanFull(jobs, JobsCap)
    /\ LET j == Job(Len(submitted) + 1, data) IN
        /\ jobs' = Enqueue(jobs, j)
        /\ submitted' = Append(submitted, j)
    /\ UNCHANGED <<httpVars, sgVars, repoVars>>
    /\ UNCHANGED <<prog, backlog, numWorkers, startIdx, pc, job, result, closed, ctxDone,
                   wg, results, published, handlerCalls, waitState, submitPanic,
                   observedDone, inFlight>>

\* mutant: Close only marks the pool, the channel stays open and the send of
\* a later Submit goes through
SubmitAfterCloseEnqueues ==
    /\ prog = "pool"
    /\ closed
    /\ ~submitPanic
    /\ submitPanic' = TRUE
    /\ jobs' = Append(jobs, Job(Len(submitted) + 1, "job"))
    /\ submitted' = Append(submitted, Job(Len(submitted) + 1, "job"))
    /\ UNCHANGED <<httpVars, sgVars, repoVars>>
    /\ UNCHANGED <<prog, backlog, numWorkers, startIdx, pc, job, result, closed,
                   ctxDone, wg, results, published, handlerCalls, waitState,
                   observedDone, inFlight>>

\* Submit on the closed channel: the send panics in the goroutine that
\* called Submit and nothing is enqueued; the pool itself is not touched
SubmitAfterClose ==
    /\ prog = "pool"
    /\ closed
    /\ ~submitPanic
    /\ submitPanic' = TRUE
    /\ UNCHANGED <<httpVars, sgVars, repoVars>>
    /\ UNCHANGED <<prog, backlog, numWorkers, startIdx, pc, job, result, jobs, closed,
                   ctxDone, wg, results, published, handlerCalls, submitted,
                   waitState, observedDone, inFlight>>

\* Close: close(wp.jobs)
Close ==
    /\ prog = "pool"
    /\ ~closed
    /\ closed' = TRUE
    /\ UNCHANGED <<httpVars, sgVars, repoVars>>
    /\ UNCHANGED <<prog, backlog, numWorkers, startIdx, pc, job, result, jobs, ctxDone,
                   wg, results, published, handlerCalls, submitted, waitState,
                   submitPanic, observedDone, inFlight>>

\* the owner of the context calls cancel(); inFlight records the jobs the
\* workers are in the middle of at that moment
Cancel ==
    /\ prog = "pool"
    /\ ~ctxDone
    /\ ctxDone' = TRUE
    /\ inFlight' = {job[w] : w \in {v \in WorkerIds : pc[v] \in {"process", "send"}}}
    /\ UNCHANGED <<httpVars, sgVars, repoVars>>
    /\ UNCHANGED <<prog, backlog, numWorkers, startIdx, pc, job, result, jobs, closed,
                   wg, results, published, handlerCalls, submitted, waitState,
                   submitPanic, observedDone>>

\* mutant: break leaves the select only, the loop goes on
ReturnedBreak == "select"

\* position of a worker once its function returned
Returned == "exited"

\* mutant: the select of the worker has no case for the cancellation signal
CtxDoneNever == FALSE

\* a receive from ctx.Done() can proceed: the signal has fired
CtxDoneReady == ctxDone

\* mutant: the send of the result is a select with a case for ctx.Done() too
AtSelectOrSend(w) == pc[w] \in {"select", "send"}

\* the worker is at the select at the head of its loop, the one place where
\* it receives from ctx.Done()
AtSelect(w) == pc[w] = "select"

\* worker, select: case <-ctx.Done(): return  (with the deferred wg.Done)
WorkerDone(w) ==
    /\ prog = "pool"
    /\ AtSelect(w)
    /\ CtxDoneReady
    /\ pc' = [pc EXCEPT ![w] = Returned]
    /\ wg' = wg - 1
    /\ observedDone' = observedDone \cup {w}
    /\ UNCHANGED <<httpVars, sgVars, repoVars>>
    /\ UNCHANGED <<prog, backlog, numWorkers, startIdx, job, result, jobs, closed, ctxDone,
                   results, published, handlerCalls, submitted, waitState,
                   submitPanic, inFlight>>

\* mutant: the receive hands out the first job and leaves it in the buffer
DequeuePeek(q) == q

\* the buffer of a channel after a receive took its first element
Dequeue(q) == Tail(q)

\* worker, select: case job, ok := <-wp.jobs with ok = true
WorkerRecv(w) ==
    /\ prog = "pool"
    /\ pc[w] = "select"
    /\ jobs # <<>>
    /\ job' = [job EXCEPT ![w] = Head(jobs)]
    /\ jobs' = Dequeue(jobs)
    /\ pc' = [pc EXCEPT ![w] = "process"]
    /\ UNCHANGED <<httpVars, sgVars, repoVars>>
    /\ UNCHANGED <<prog, backlog, numWorkers, startIdx, result, closed, ctxDone, wg,
                   results, published, handlerCalls, submitted, waitState,
                   submitPanic, observedDone, inFlight>>

\* mutant: the worker returns as soon as the channel is closed
RecvNotOkClosedOnly == closed

\* a receive from wp.jobs yields ok = false: the channel is closed and empty
RecvNotOk == closed /\ jobs = <<>>

\* worker, select: case job, ok := <-wp.jobs with ok = false: return
WorkerClosed(w) ==
    /\ prog = "pool"
    /\ pc[w] = "select"
    /\ RecvNotOk
    /\ pc' = [pc EXCEPT ![w] = Returned]
    /\ wg' = wg - 1
    /\ UNCHANGED <<httpVars, sgVars, repoVars>>
    /\ UNCHANGED <<prog, backlog, numWorkers, startIdx, job, result, jobs, closed, ctxDone,
                   results, published, handlerCalls, submitted, waitState,
                   submitPanic, observedDone, inFlight>>

\* worker: result := wp.processJobWithRecovery(workerID, job)
WorkerProcess(w) ==
    /\ prog = "pool"
    /\ pc[w] = "process"
    /\ LET r == processJobWithRecovery(w, job[w]) IN
        /\ result' = [result EXCEPT ![w] = r.result]
        /\ handlerCalls' = handlerCalls (+) r.calls
    /\ pc' = [pc EXCEPT ![w] = "send"]
    /\ UNCHANGED <<httpVars, sgVars, repoVars>>
    /\ UNCHANGED <<prog, backlog, numWorkers, startIdx, job, jobs, closed, ctxDone, wg,
                   results, published, submitted, waitState, submitPanic,
                   observedDone, inFlight>>

\* worker: results <- result, and back to the head of the loop (job and
\* result are variables of one loop iteration)
WorkerSend(w) ==
    /\ prog = "pool"
    /\ pc[w] = "send"
    /\ Len(results) < ResultsCap
    /\ results' = Append(results, result[w])
    /\ published' = Append(published, result[w])
    /\ job' = [job EXCEPT ![w] = NoJob]
    /\ result' = [result EXCEPT ![w] = NoResult]
    /\ pc' = [pc EXCEPT ![w] = "select"]
    /\ inFlight' = inFlight \ {job[w]}
    /\ UNCHANGED <<httpVars, sgVars, repoVars>>
    /\ UNCHANGED <<prog, backlog, numWorkers, startIdx, jobs, closed, ctxDone,
                   wg, handlerCalls, submitted, waitState, submitPanic,
                   observedDone>>

\* the consumer of the results channel: <-results
Receive ==
    /\ prog = "pool"
    /\ results # <<>>
    /\ results' = Tail(results)
    /\ UNCHANGED <<httpVars, sgVars, repoVars>>
    /\ UNCHANGED <<prog, backlog, numWorkers, startIdx, pc, job, result, jobs, closed,
                   ctxDone, wg, published, handlerCalls, submitted, waitState,
                   submitPanic, observedDone, inFlight>>

\* Wait is called, after Start has returned
WaitCall ==
    /\ prog = "pool"
    /\ startIdx = numWorkers
    /\ waitState = "idle"
    /\ waitState' = "waiting"
    /\ UNCHANGED <<httpVars, sgVars, repoVars>>
    /\ UNCHANGED <<prog, backlog, numWorkers, startIdx, pc, job, result, jobs, closed,
                   ctxDone, wg, results, published, handlerCalls, submitted,
                   submitPanic, observedDone, inFlight>>

\* mutant: Wait returns once some worker has called Done
WaitGroupDoneAny == wg < numWorkers

\* the condition under which wp.wg.Wait() returns
WaitGroupDone == wg = 0

\* Wait returns
WaitReturn ==
    /\ prog = "pool"
    /\ waitState = "waiting"
    /\ WaitGroupDone
    /\ waitState' = "returned"
    /\ UNCHANGED <<httpVars, sgVars, repoVars>>
    /\ UNCHANGED <<prog, backlog, numWorkers, startIdx, pc, job, result, jobs, closed,
                   ctxDone, wg, results, published, handlerCalls, submitted,
                   submitPanic, observedDone, inFlight>>

WorkerStep(w) ==
    \/ WorkerDone(w)
    \/ WorkerRecv(w)
    \/ WorkerClosed(w)
    \/ WorkerProcess(w)
    \/ WorkerSend(w)

PoolNext ==
    \/ StartSpawn
    \/ \E d \in JobData : Submit(d)
    \/ Close
    \/ Cancel
    \/ \E w \in WorkerIds : WorkerDone(w)
    \/ \E w \in WorkerIds : WorkerRecv(w)
    \/ \E w \in WorkerIds : WorkerClosed(w)
    \/ \E w \in WorkerIds : WorkerProcess(w)
    \/ \E w \in WorkerIds : WorkerSend(w)
    \/ Receive

\* the pool with its producer, its consumer and the owner of the context
PoolSpec == PoolInit /\ [][PoolNext]_vars

\* the pool run to completion without cancellation, with a caller of Wait
DrainNext ==
    \/ StartSpawn
    \/ \E d \in JobData : Submit(d)
    \/ Close
    \/ \E w \in WorkerIds : WorkerRecv(w)
    \/ \E w \in WorkerIds : WorkerClosed(w)
    \/ \E w \in WorkerIds : WorkerProcess(w)
    \/ \E w \in WorkerIds : WorkerSend(w)
    \/ Receive
    \/ WaitCall
    \/ WaitReturn

\* goroutines that can run are eventually scheduled: Start finishes its loop,
\* a worker that can take a step takes one, the consumer drains the results
\* channel, a Wait that can return returns.  The producer never has to
\* submit or close.
DrainFairness ==
    /\ WF_vars(StartSpawn)
    /\ \A w \in WorkerIds : WF_vars(WorkerStep(w))
    /\ WF_vars(Receive)
    /\ WF_vars(WaitReturn)

DrainSpec == PoolInit /\ [][DrainNext]_vars /\ DrainFairness

\* the pool run to completion without cancellation, with a producer that
\* may call Submit after Close
CloseNext ==
    \/ StartSpawn
    \/ \E d \in JobData : Submit(d)
    \/ SubmitAfterClose
    \/ Close
    \/ \E w \in WorkerIds : WorkerRecv(w)
    \/ \E w \in WorkerIds : WorkerClosed(w)
    \/ \E w \in WorkerIds : WorkerProcess(w)
    \/ \E w \in WorkerIds : WorkerSend(w)
    \/ Receive

CloseSpec == PoolInit /\ [][CloseNext]_vars /\ DrainFairness

\* the pool with the owner of the context and a caller of Wait
CancelNext ==
    \/ StartSpawn
    \/ \E d \in JobData : Submit(d)
    \/ Close
    \/ Cancel
    \/ \E w \in WorkerIds : WorkerDone(w)
    \/ \E w \in WorkerIds : WorkerRecv(w)
    \/ \E w \in WorkerIds : WorkerClosed(w)
    \/ \E w \in WorkerIds : WorkerProcess(w)
    \/ \E w \in WorkerIds : WorkerSend(w)
    \/ Receive
    \/ WaitCall
    \/ WaitReturn

\* goroutines of the pool that can run are eventually scheduled.  The
\* producer never has to submit or close, the owner of the context never has
\* to cancel, and the consumer never has to receive: whether it goes on
\* reading the results channel is up to the program that uses the pool.
CancelFairness ==
    /\ WF_vars(StartSpawn)
    /\ \A w \in WorkerIds : WF_vars(WorkerStep(w))
    /\ WF_vars(WaitReturn)

CancelSpec == PoolInit /\ [][CancelNext]_vars /\ CancelFairness

\* the open pool behind a backlog that nearly fills the queue
BacklogNext ==
    \/ StartSpawn
    \/ \E d \in JobData : Submit(d)
    \/ \E w \in WorkerIds : WorkerRecv(w)
    \/ \E w \in WorkerIds : WorkerProcess(w)
    \/ \E w \in WorkerIds : WorkerSend(w)
    \/ Receive

BacklogSpec == BacklogInit /\ [][BacklogNext]_vars

\* ------------------------------------------- pool of package before: actions
\* the fields of the pool of package after that the pool of package before
\* does not have: it has no WaitGroup and no panic handler
afterOnly == <<backlog, wg, handlerCalls, waitState, submitPanic, observedDone,
               inFlight>>

\* NewWorkerPool(n) of package before, before Start
BeforeInit ==
    /\ prog = "before"
    /\ \E n \in 1 .. MaxWorkers : PoolFields(n)
    /\ HttpFields
    /\ SafeGoIdle
    /\ RepoFields

\* the process of the program is running: the runtime has not terminated it
Running == \A w \in WorkerIds : pc[w] # "killed"

\* one iteration of the loop of Start: go func(workerID int) {...}(i)
BeforeStartSpawn ==
    /\ prog = "before"
    /\ Running
    /\ startIdx < numWorkers
    /\ pc' = [pc EXCEPT ![startIdx] = "select"]
    /\ startIdx' = startIdx + 1
    /\ UNCHANGED <<httpVars, sgVars, repoVars, afterOnly>>
    /\ UNCHANGED <<prog, numWorkers, job, result, jobs, closed, ctxDone, results,
                   published, submitted>>

\* Submit: wp.jobs <- job, on the open channel
BeforeSubmit(data) ==
    /\ prog = "before"
    /\ Running
    /\ ~closed
    /\ Len(submitted) < MaxJobs
    /\ ~ChanFull(jobs, JobsCap)
    /\ LET j == Job(Len(submitted) + 1, data) IN
        /\ jobs' = Enqueue(jobs, j)
        /\ submitted' = Append(submitted, j)
    /\ UNCHANGED <<httpVars, sgVars, repoVars, afterOnly>>
    /\ UNCHANGED <<prog, numWorkers, startIdx, pc, job, result, closed, ctxDone,
                   results, published>>

\* Close: close(wp.jobs)
BeforeClose ==
    /\ prog = "before"
    /\ Running
    /\ ~closed
    /\ closed' = TRUE
    /\ UNCHANGED <<httpVars, sgVars, repoVars, afterOnly>>
    /\ UNCHANGED <<prog, numWorkers, startIdx, pc, job, result, jobs, ctxDone,
                   results, published, submitted>>

\* the owner of the context calls cancel()
BeforeCancel ==
    /\ prog = "before"
    /\ Running
    /\ ~ctxDone
    /\ ctxDone' = TRUE
    /\ UNCHANGED <<httpVars, sgVars, repoVars, afterOnly>>
    /\ UNCHANGED <<prog, numWorkers, startIdx, pc, job, result, jobs, closed,
                   results, published, submitted>>

\* worker, select: case <-ctx.Done(): return
BeforeWorkerDone(w) ==
    /\ prog = "before"
    /\ Running
    /\ pc[w] = "select"
    /\ CtxDoneReady
    /\ pc' = [pc EXCEPT ![w] = Returned]
    /\ UNCHANGED <<httpVars, sgVars, repoVars, afterOnly>>
    /\ UNCHANGED <<prog, numWorkers, startIdx, job, result, jobs, closed, ctxDone,
                   results, published, submitted>>

\* worker, select: case job, ok := <-wp.jobs with ok = true
BeforeWorkerRecv(w) ==
    /\ prog = "before"
    /\ Running
    /\ pc[w] = "select"
    /\ jobs # <<>>
    /\ job' = [job EXCEPT ![w] = Head(jobs)]
    /\ jobs' = Dequeue(jobs)
    /\ pc' = [pc EXCEPT ![w] = "process"]
    /\ UNCHANGED <<httpVars, sgVars, repoVars, afterOnly>>
    /\ UNCHANGED <<prog, numWorkers, startIdx, result, closed, ctxDone, results,
                   published, submitted>>

\* worker, select: case job, ok := <-wp.jobs with ok = false: return
BeforeWorkerClosed(w) ==
    /\ prog = "before"
    /\ Running
    /\ pc[w] = "select"
    /\ RecvNotOk
    /\ pc' = [pc EXCEPT ![w] = Returned]
    /\ UNCHANGED <<httpVars, sgVars, repoVars, afterOnly>>
    /\ UNCHANGED <<prog, numWorkers, startIdx, job, result, jobs, closed, ctxDone,
                   results, published, submitted>>

\* position of a worker whose goroutine is unwinding a panic that nothing
\* recovers
Panicked == "panicked"

\* the JobResult of package before has the fields Job and Err only
BeforeJobResult(res) == JobResult(res.Job, res.Err, FALSE, EmptyStr)

\* worker: result := wp.processJob(workerID, job); a panic of processJob
\* unwinds the goroutine, which has no deferred function
BeforeWorkerProcess(w) ==
    /\ prog = "before"
    /\ Running
    /\ pc[w] = "process"
    /\ LET r == processJob(w, job[w]) IN
        IF r.panicked
        THEN /\ pc' = [pc EXCEPT ![w] = Panicked]
             /\ UNCHANGED result
        ELSE /\ pc' = [pc EXCEPT ![w] = "send"]
             /\ result' = [result EXCEPT ![w] = BeforeJobResult(r.result)]
    /\ UNCHANGED <<httpVars, sgVars, repoVars, afterOnly>>
    /\ UNCHANGED <<prog, numWorkers, startIdx, job, jobs, closed, ctxDone, results,
                   published, submitted>>

\* the panic reached the top of the worker's goroutine: the runtime prints
\* it and terminates the process, and with it every goroutine
BeforeExit ==
    /\ prog = "before"
    /\ Running
    /\ \E w \in WorkerIds : pc[w] = "panicked"
    /\ pc' = [w \in WorkerIds |-> "killed"]
    /\ UNCHANGED <<httpVars, sgVars, repoVars, afterOnly>>
    /\ UNCHANGED <<prog, numWorkers, startIdx, job, result, jobs, closed, ctxDone,
                   results, published, submitted>>

\* worker: results <- result, and back to the head of the loop
BeforeWorkerSend(w) ==
    /\ prog = "before"
    /\ Running
    /\ pc[w] = "send"
    /\ Len(results) < ResultsCap
    /\ results' = Append(results, result[w])
    /\ published' = Append(published, result[w])
    /\ job' = [job EXCEPT ![w] = NoJob]
    /\ result' = [result EXCEPT ![w] = NoResult]
    /\ pc' = [pc EXCEPT ![w] = "select"]
    /\ UNCHANGED <<httpVars, sgVars, repoVars, afterOnly>>
    /\ UNCHANGED <<prog, numWorkers, startIdx, jobs, closed, ctxDone, submitted>>

\* the consumer of the results channel: <-results
BeforeReceive ==
    /\ prog = "before"
    /\ Running
    /\ results # <<>>
    /\ results' = Tail(results)
    /\ UNCHANGED <<httpVars, sgVars, repoVars, afterOnly>>
    /\ UNCHANGED <<prog, numWorkers, startIdx, pc, job, result, jobs, closed,
                   ctxDone, published, submitted>>

BeforeNext ==
    \/ BeforeStartSpawn
    \/ \E d \in JobData : BeforeSubmit(d)
    \/ BeforeClose
    \/ BeforeCancel
    \/ \E w \in WorkerIds : BeforeWorkerDone(w)
    \/ \E w \in WorkerIds : BeforeWorkerRecv(w)
    \/ \E w \in WorkerIds : BeforeWorkerClosed(w)
    \/ \E w \in WorkerIds : BeforeWorkerProcess(w)
    \/ \E w \in WorkerIds : BeforeWorkerSend(w)
    \/ BeforeReceive
    \/ BeforeExit

\* the unprotected pool with its producer, its consumer and the owner of the
\* context
BeforeSpec == BeforeInit /\ [][BeforeNext]_vars

\* ---------------------------------------------------------- http: actions
\* ServeHTTP: the mux routes the request to the wrapped handler of its path
ServeHTTP(r, path, body) ==
    /\ prog = "http"
    /\ reqPc[r] = "idle"
    /\ reqHandler' = [reqHandler EXCEPT ![r] = Request(RouteTable[path], path, body)]
    /\ reqPc' = [reqPc EXCEPT ![r] = "handler"]
    /\ UNCHANGED <<poolVars, sgVars, repoVars>>
    /\ UNCHANGED <<prog, reqOps, reqRec, reqEscaped, httpCalls, bgPc, bgCalls>>

\* s.withPanicRecovery(h)(w, req) for a handler h that is not a route
CallWrapped(r, h) ==
    /\ prog = "http"
    /\ reqPc[r] = "idle"
    /\ reqHandler' = [reqHandler EXCEPT ![r] = Request(h, "", "")]
    /\ reqPc' = [reqPc EXCEPT ![r] = "handler"]
    /\ UNCHANGED <<poolVars, sgVars, repoVars>>
    /\ UNCHANGED <<prog, reqOps, reqRec, reqEscaped, httpCalls, bgPc, bgCalls>>

\* withPanicRecovery: handler(w, r) runs until it returns or panics; then the
\* deferred function starts with rec := recover()
RunHandler(r) ==
    /\ prog = "http"
    /\ reqPc[r] = "handler"
    /\ LET out == Handle(reqHandler[r]) IN
        /\ reqOps' = [reqOps EXCEPT ![r] = @ \o out.ops]
        /\ bgPc' = [bgPc EXCEPT ![r] = IF out.spawn THEN "running" ELSE @]
        /\ reqRec' = [reqRec EXCEPT ![r] = out.panicValue]
    /\ reqPc' = [reqPc EXCEPT ![r] = "deferred"]
    /\ UNCHANGED <<poolVars, sgVars, repoVars>>
    /\ UNCHANGED <<prog, reqHandler, reqEscaped, httpCalls, bgCalls>>

\* mutant: the deferred function does not return when recover() gave nil
InterceptedAlways(rec) == TRUE

\* recover() returned a value: the handler panicked
Intercepted(rec) == rec # NoValue

\* mutant: the deferred function calls s.panicHandler before it tests for
\* the sentinel
RecoverHandlerFirst(r) ==
    /\ prog = "http"
    /\ reqPc[r] = "deferred"
    /\ IF ~Intercepted(reqRec[r])
       THEN /\ reqPc' = [reqPc EXCEPT ![r] = "done"]
            /\ UNCHANGED <<reqEscaped, httpCalls>>
       ELSE /\ httpCalls' = httpCalls (+)
                    PanicCall(reqRec[r], r, reqHandler[r].path)
            /\ IF IsAbort(reqRec[r])
               THEN /\ reqEscaped' = [reqEscaped EXCEPT ![r] = reqRec[r]]
                    /\ reqPc' = [reqPc EXCEPT ![r] = "panicked"]
               ELSE /\ reqPc' = [reqPc EXCEPT ![r] = "respond"]
                    /\ UNCHANGED reqEscaped
    /\ UNCHANGED <<poolVars, sgVars, repoVars>>
    /\ UNCHANGED <<prog, reqHandler, reqOps, reqRec, bgPc, bgCalls>>

\* the deferred function of withPanicRecovery up to s.panicHandler(rec, r):
\* nothing recovered: return; the sentinel: panic(rec); else the handler call
Recover(r) ==
    /\ prog = "http"
    /\ reqPc[r] = "deferred"
    /\ IF ~Intercepted(reqRec[r])
       THEN /\ reqPc' = [reqPc EXCEPT ![r] = "done"]
            /\ UNCHANGED <<reqEscaped, httpCalls>>
       ELSE IF IsAbort(reqRec[r])
       THEN /\ reqEscaped' = [reqEscaped EXCEPT ![r] = reqRec[r]]
            /\ reqPc' = [reqPc EXCEPT ![r] = "panicked"]
            /\ UNCHANGED httpCalls
       ELSE /\ httpCalls' = httpCalls (+)
                    PanicCall(reqRec[r], r, reqHandler[r].path)
            /\ reqPc' = [reqPc EXCEPT ![r] = "respond"]
            /\ UNCHANGED reqEscaped
    /\ UNCHANGED <<poolVars, sgVars, repoVars>>
    /\ UNCHANGED <<prog, reqHandler, reqOps, reqRec, bgPc, bgCalls>>

\* the deferred function of withPanicRecovery after the handler call: the
\* header, the status and the encoded ErrorResponse; then the call returns
Respond(r) ==
    /\ prog = "http"
    /\ reqPc[r] = "respond"
    /\ reqOps' = [reqOps EXCEPT ![r] = @ \o ErrorResponseFor(reqRec[r])]
    /\ reqPc' = [reqPc EXCEPT ![r] = "done"]
    /\ UNCHANGED <<poolVars, sgVars, repoVars>>
    /\ UNCHANGED <<prog, reqHandler, reqRec, reqEscaped, httpCalls, bgPc, bgCalls>>

\* mutant: the callback given to safeGo is the request handler of the server
BackgroundToServer(r) ==
    /\ prog = "http"
    /\ bgPc[r] = "running"
    /\ ~IsAbort(BackgroundPanic)
    /\ httpCalls' = httpCalls (+) PanicCall(BackgroundPanic, r, reqHandler[r].path)
    /\ bgPc' = [bgPc EXCEPT ![r] = "done"]
    /\ UNCHANGED <<poolVars, sgVars, repoVars>>
    /\ UNCHANGED <<prog, reqPc, reqHandler, reqOps, reqRec, reqEscaped, bgCalls>>

\* the goroutine handleSlow starts with safeGo: fn panics, the deferred
\* function recovers a value that is not the sentinel and calls the callback
Background(r) ==
    /\ prog = "http"
    /\ bgPc[r] = "running"
    /\ ~IsAbort(BackgroundPanic)
    /\ bgCalls' = bgCalls (+) SetToBag({[recovered |-> BackgroundPanic, req |-> r]})
    /\ bgPc' = [bgPc EXCEPT ![r] = "done"]
    /\ UNCHANGED <<poolVars, sgVars, repoVars>>
    /\ UNCHANGED <<prog, reqPc, reqHandler, reqOps, reqRec, reqEscaped, httpCalls>>

HttpNext ==
    \/ \E r \in ReqIds, p \in Paths : \E b \in BodiesOf(p) : ServeHTTP(r, p, b)
    \/ \E r \in ReqIds, h \in TestHandlers : CallWrapped(r, h)
    \/ \E r \in ReqIds : RunHandler(r)
    \/ \E r \in ReqIds : Recover(r)
    \/ \E r \in ReqIds : Respond(r)
    \/ \E r \in ReqIds : Background(r)

\* the server with concurrent requests
HttpSpec == HttpInit /\ [][HttpNext]_vars

\* -------------------------------------------------------- safego: actions
\* SafeGo / safeGo: the go statement; the helper returns
SafeGo ==
    /\ prog = "safego"
    /\ sgCaller = "start"
    /\ sgPc' = "fn"
    /\ sgCaller' = "returned"
    /\ UNCHANGED <<poolVars, httpVars, repoVars>>
    /\ UNCHANGED <<prog, sgImpl, sgFn, sgHasHandler, sgPanicking, sgCalls, sgLog,
                   sgSeen>>

\* the new goroutine runs fn() up to its return, its panic, or its send on
\* done (in the body of fn, or in the function fn deferred before panic)
RunFn ==
    /\ prog = "safego"
    /\ sgPc = "fn"
    /\ sgPanicking' = sgFn.value
    /\ sgPc' = IF sgFn.kind \in {"sendDone", "deferDonePanic"}
               THEN "sending" ELSE "unwound"
    /\ UNCHANGED <<poolVars, httpVars, repoVars>>
    /\ UNCHANGED <<prog, sgImpl, sgFn, sgHasHandler, sgCaller, sgCalls, sgLog,
                   sgSeen>>

\* done <- true meets <-done of the caller: on the unbuffered channel the
\* send and the receive complete together; fn is left
DoneRendezvous ==
    /\ prog = "safego"
    /\ sgPc = "sending"
    /\ sgCaller = "returned"
    /\ sgPc' = "unwound"
    /\ sgCaller' = "received"
    /\ UNCHANGED <<poolVars, httpVars, repoVars>>
    /\ UNCHANGED <<prog, sgImpl, sgFn, sgHasHandler, sgPanicking, sgCalls, sgLog,
                   sgSeen>>

\* the deferred function of the helper: recover(), then the callback, the
\* log line or the re-raised panic, which nothing recovers in this goroutine
RunDeferred ==
    /\ prog = "safego"
    /\ sgPc = "unwound"
    /\ LET d == IF sgImpl = "SafeGo"
                THEN SafeGoDeferred(sgPanicking, sgHasHandler)
                ELSE safeGoDeferred(sgPanicking, sgHasHandler) IN
        /\ sgCalls' = sgCalls \o d.calls
        /\ sgLog' = sgLog \o d.logs
        /\ sgPanicking' = d.reraise
        /\ sgPc' = IF d.reraise = NoValue THEN "finished" ELSE "crashed"
    /\ UNCHANGED <<poolVars, httpVars, repoVars>>
    /\ UNCHANGED <<prog, sgImpl, sgFn, sgHasHandler, sgCaller, sgSeen>>

\* the caller, having received from done, reads panicHandlerCalled under the
\* mutex (unless the process has died of an unrecovered panic)
CallerCheck ==
    /\ prog = "safego"
    /\ sgCaller = "received"
    /\ sgPc # "crashed"
    /\ sgSeen' = IF sgCalls # <<>> THEN "called" ELSE "notCalled"
    /\ sgCaller' = "checked"
    /\ UNCHANGED <<poolVars, httpVars, repoVars>>
    /\ UNCHANGED <<prog, sgImpl, sgFn, sgHasHandler, sgPc, sgPanicking, sgCalls,
                   sgLog>>

SafeGoNext ==
    \/ SafeGo
    \/ RunFn
    \/ DoneRendezvous
    \/ RunDeferred
    \/ CallerCheck

\* one call of a helper, with the caller of the tests
SafeGoSpec == SafeGoInit /\ [][SafeGoNext]_vars

\* any of the programs
\* ----------------------------------------- server of package before: actions
\* setupRoutes of package before: the routes, with their handlers unwrapped
BeforePaths == {"/health", "/panic", "/slow", "/json"}
BeforeRouteTable ==
    [p \in BeforePaths |->
        CASE p = "/health" -> "handleHealth"
          [] p = "/panic" -> "handlePanic"
          [] p = "/slow" -> "handleSlow"
          [] OTHER -> "handleJSON"]

\* the handlers of package before: what each does with its ResponseWriter,
\* whether it starts a goroutine with a bare go statement, and the value it
\* panics with (NoValue: it returns)
BeforeHandle(h) ==
    CASE h.name = "handleHealth" ->
            Outcome(<<WriteHeader("handler", StatusOK),
                      Write("handler", "{message:Server is healthy,status:ok}")>>,
                    FALSE, NoValue)
      [] h.name = "handlePanic" ->
            Outcome(<<>>, FALSE, StrValue("intentional panic in handler"))
      [] h.name = "handleSlow" ->
            Outcome(<<WriteHeader("handler", StatusOK),
                      Write("handler", "{message:Started background job,status:ok}")>>,
                    TRUE, NoValue)
      [] h.name = "handleJSON" ->
            IF ~DecodeOK(h.body)
            THEN Outcome(<<SetHeader("handler", "Content-Type",
                                     "text/plain; charset=utf-8"),
                           SetHeader("handler", "X-Content-Type-Options", "nosniff"),
                           WriteHeader("handler", StatusBadRequest),
                           Write("handler", "Invalid JSON")>>,
                         FALSE, NoValue)
            ELSE IF TriggerPanic(h.body)
            THEN Outcome(<<>>, FALSE,
                         StrValue("panic triggered by request: map[trigger_panic:true]"))
            ELSE Outcome(<<WriteHeader("handler", StatusOK),
                           Write("handler",
                                 "{message:Data processed successfully,status:ok}")>>,
                         FALSE, NoValue)
      [] OTHER -> Outcome(<<>>, FALSE, NoValue)

\* NewServer() of package before, no request received yet
BeforeHttpInit ==
    /\ prog = "bserver"
    /\ PoolFields(1)
    /\ HttpFields
    /\ SafeGoIdle
    /\ RepoFields

\* the process of the server is running: no goroutine started by handleSlow
\* has panicked
ServerRunning == \A r \in ReqIds : bgPc[r] # "crashed"

\* ServeHTTP: the mux routes the request to the handler of its path
BeforeServeHTTP(r, path, body) ==
    /\ prog = "bserver"
    /\ ServerRunning
    /\ reqPc[r] = "idle"
    /\ reqHandler' = [reqHandler EXCEPT ![r] = Request(BeforeRouteTable[path], path, body)]
    /\ reqPc' = [reqPc EXCEPT ![r] = "handler"]
    /\ UNCHANGED <<poolVars, sgVars, repoVars>>
    /\ UNCHANGED <<prog, reqOps, reqRec, reqEscaped, httpCalls, bgPc, bgCalls>>

\* the handler runs until it returns or panics; a panic leaves ServeHTTP
BeforeRunHandler(r) ==
    /\ prog = "bserver"
    /\ ServerRunning
    /\ reqPc[r] = "handler"
    /\ LET out == BeforeHandle(reqHandler[r]) IN
        /\ reqOps' = [reqOps EXCEPT ![r] = @ \o out.ops]
        /\ bgPc' = [bgPc EXCEPT ![r] = IF out.spawn THEN "running" ELSE @]
        /\ reqEscaped' = [reqEscaped EXCEPT ![r] = out.panicValue]
        /\ reqPc' = [reqPc EXCEPT ![r] =
                        IF out.panicValue = NoValue THEN "done" ELSE "panicked"]
    /\ UNCHANGED <<poolVars, sgVars, repoVars>>
    /\ UNCHANGED <<prog, reqHandler, reqRec, httpCalls, bgCalls>>

\* the goroutine started by handleSlow panics; nothing recovers the panic, so
\* the runtime terminates the process of the server
BeforeBackground(r) ==
    /\ prog = "bserver"
    /\ ServerRunning
    /\ bgPc[r] = "running"
    /\ bgPc' = [bgPc EXCEPT ![r] = "crashed"]
    /\ UNCHANGED <<poolVars, sgVars, repoVars>>
    /\ UNCHANGED <<prog, reqPc, reqHandler, reqOps, reqRec, reqEscaped, httpCalls,
                   bgCalls>>

BeforeHttpNext ==
    \/ \E r \in ReqIds, p \in BeforePaths : \E b \in BodiesOf(p) : BeforeServeHTTP(r, p, b)
    \/ \E r \in ReqIds : BeforeRunHandler(r)
    \/ \E r \in ReqIds : BeforeBackground(r)

\* the unprotected server with concurrent requests
BeforeHttpSpec == BeforeHttpInit /\ [][BeforeHttpNext]_vars

\* ------------------------------------------------ user repository: actions
\* a caller of the repository
RepoInit ==
    /\ prog = "repo"
    /\ PoolFields(1)
    /\ HttpFields
    /\ SafeGoIdle
    /\ RepoFields

\* callers of the user service on an empty repository
ServiceInit ==
    /\ prog = "service"
    /\ PoolFields(1)
    /\ HttpFields
    /\ SafeGoIdle
    /\ RepoFields

\* the keys of the stored users with the given email
FindByEmail(email) == {id \in DOMAIN users : heap[users[id]].Email = email}

\* a caller builds a user: &domain.User{ID: id, Email: email, Name: name}
NewUser(id, email, name) ==
    /\ prog = "repo"
    /\ Len(heap) < MaxObjects
    /\ heap' = Append(heap, User(id, email, name))
    /\ held' = held \cup {alloc(heap)}
    /\ origin' = Append(origin, "caller")
    /\ UNCHANGED <<poolVars, httpVars, sgVars>>
    /\ UNCHANGED <<prog, users, passed, svcPc, svcArgs, svcRet, clock>>

\* Create(ctx, user)
Create(a) ==
    /\ prog = "repo"
    /\ a \in held
    /\ Len(heap) < MaxObjects
    /\ passed' = passed \cup {a}
    /\ IF heap[a].ID \in DOMAIN users
       THEN UNCHANGED <<heap, users, origin>>
       ELSE LET c == copyUser(heap, a) IN
            /\ heap' = c.heap
            /\ users' = MapSet(users, heap[a].ID, c.addr)
            /\ origin' = origin \o [k \in 1 .. Len(c.heap) - Len(heap) |-> "repo"]
    /\ UNCHANGED <<poolVars, httpVars, sgVars>>
    /\ UNCHANGED <<prog, held, svcPc, svcArgs, svcRet, clock>>

\* Update(ctx, user): userCopy := *user; r.users[user.ID] = &userCopy
Update(a) ==
    /\ prog = "repo"
    /\ a \in held
    /\ Len(heap) < MaxObjects
    /\ passed' = passed \cup {a}
    /\ IF heap[a].ID \notin DOMAIN users
       THEN UNCHANGED <<heap, users, origin>>
       ELSE /\ users' = MapSet(users, heap[a].ID, alloc(heap))
            /\ heap' = Append(heap, heap[a])
            /\ origin' = Append(origin, "repo")
    /\ UNCHANGED <<poolVars, httpVars, sgVars>>
    /\ UNCHANGED <<prog, held, svcPc, svcArgs, svcRet, clock>>

\* Delete(ctx, id) of a stored user
Delete(id) ==
    /\ prog = "repo"
    /\ id \in DOMAIN users
    /\ users' = MapDelete(users, id)
    /\ UNCHANGED <<poolVars, httpVars, sgVars>>
    /\ UNCHANGED <<prog, heap, held, origin, passed, svcPc, svcArgs, svcRet, clock>>

\* GetByID(ctx, id) of a stored user
GetByID(id) ==
    /\ prog = "repo"
    /\ id \in DOMAIN users
    /\ Len(heap) < MaxObjects
    /\ LET c == copyUser(heap, users[id]) IN
        /\ heap' = c.heap
        /\ held' = held \cup {c.addr}
        /\ origin' = origin \o [k \in 1 .. Len(c.heap) - Len(heap) |-> "GetByID"]
    /\ UNCHANGED <<poolVars, httpVars, sgVars>>
    /\ UNCHANGED <<prog, users, passed, svcPc, svcArgs, svcRet, clock>>

\* GetByEmail(ctx, email): the first user of the range with that email
GetByEmail(email) ==
    /\ prog = "repo"
    /\ Len(heap) < MaxObjects
    /\ \E id \in FindByEmail(email) :
        LET c == copyUser(heap, users[id]) IN
        /\ heap' = c.heap
        /\ held' = held \cup {c.addr}
        /\ origin' = origin \o [k \in 1 .. Len(c.heap) - Len(heap) |-> "GetByEmail"]
    /\ UNCHANGED <<poolVars, httpVars, sgVars>>
    /\ UNCHANGED <<prog, users, passed, svcPc, svcArgs, svcRet, clock>>

\* List(ctx, limit, offset) that returns at least one user
List(limit, offset) ==
    /\ prog = "repo"
    /\ \E order \in Orders(users) :
        LET page == Page(order, limit, offset)
            c == copyEach(heap, [k \in DOMAIN page |-> users[page[k]]]) IN
        /\ page # <<>>
        /\ Len(heap) + Len(page) <= MaxObjects
        /\ heap' = c.heap
        /\ held' = held \cup {c.addrs[k] : k \in DOMAIN c.addrs}
        /\ origin' = origin \o [k \in 1 .. Len(c.heap) - Len(heap) |-> "List"]
    /\ UNCHANGED <<poolVars, httpVars, sgVars>>
    /\ UNCHANGED <<prog, users, passed, svcPc, svcArgs, svcRet, clock>>

\* a caller assigns to a field of a User it holds a pointer to
Mutate(a, field, v) ==
    /\ prog = "repo"
    /\ a \in held
    /\ heap[a][field] # v
    /\ heap' = [heap EXCEPT ![a] = [@ EXCEPT ![field] = v]]
    /\ UNCHANGED <<poolVars, httpVars, sgVars>>
    /\ UNCHANGED <<prog, users, held, origin, passed, svcPc, svcArgs, svcRet, clock>>

RepoNext ==
    \/ \E id \in UserIds, e \in Emails : NewUser(id, e, "Original Name")
    \/ \E a \in held : Create(a)
    \/ \E a \in held : Update(a)
    \/ \E id \in UserIds : Delete(id)
    \/ \E id \in UserIds : GetByID(id)
    \/ \E e \in Emails : GetByEmail(e)
    \/ \E limit \in 1 .. 2, offset \in 0 .. 1 : List(limit, offset)
    \/ \E a \in held, v \in UserIds : Mutate(a, "ID", v)
    \/ \E a \in held, v \in Emails : Mutate(a, "Email", v)
    \/ \E a \in held, v \in Names : Mutate(a, "Name", v)

\* the repository with callers that keep and change the User objects they
\* pass in and get back
RepoSpec == RepoInit /\ [][RepoNext]_vars

\* --------------------------------------------------- user service: actions
\* CreateUser, up to the answer of GetByEmail: the validation fails, a user
\* with the email exists, or the caller goes on
CreateUserCheck(c, email, name) ==
    /\ prog = "service"
    /\ svcPc[c] = "idle"
    /\ svcArgs' = [svcArgs EXCEPT ![c] = User(0, email, name)]
    /\ IF ~ValidateUserCreation(email, name)
       THEN /\ svcPc' = [svcPc EXCEPT ![c] = "done"]
            /\ svcRet' = [svcRet EXCEPT ![c] = [user |-> 0, err |-> ErrInvalidInput]]
       ELSE IF FindByEmail(email) # {}
       THEN /\ svcPc' = [svcPc EXCEPT ![c] = "done"]
            /\ svcRet' = [svcRet EXCEPT ![c] = [user |-> 0, err |-> ErrUserAlreadyExists]]
       ELSE /\ svcPc' = [svcPc EXCEPT ![c] = "create"]
            /\ UNCHANGED svcRet
    /\ UNCHANGED <<poolVars, httpVars, sgVars>>
    /\ UNCHANGED <<prog, heap, users, held, origin, passed, clock>>

\* CreateUser, from the construction of the user on: generateID, userRepo.Create
\* and the return
CreateUserStore(c) ==
    /\ prog = "service"
    /\ svcPc[c] = "create"
    /\ svcPc' = [svcPc EXCEPT ![c] = "done"]
    /\ LET a == alloc(heap)
           id == generateID(clock)
           h == Append(heap, User(id, svcArgs[c].Email, svcArgs[c].Name)) IN
       IF id \in DOMAIN users
       THEN /\ svcRet' = [svcRet EXCEPT ![c] =
                             [user |-> 0, err |-> WrapCreate(ErrUserAlreadyExists)]]
            /\ UNCHANGED <<heap, users, held, origin>>
       ELSE LET st == copyUser(h, a) IN
            /\ heap' = st.heap
            /\ users' = MapSet(users, id, st.addr)
            /\ held' = held \cup {a}
            /\ origin' = origin \o <<"caller">>
                            \o [k \in 1 .. Len(st.heap) - Len(h) |-> "repo"]
            /\ svcRet' = [svcRet EXCEPT ![c] = [user |-> a, err |-> "nil"]]
    /\ UNCHANGED <<poolVars, httpVars, sgVars>>
    /\ UNCHANGED <<prog, passed, svcArgs, clock>>

\* time passes: the next time.Now().UnixNano() is larger
Tick ==
    /\ prog = "service"
    /\ clock < MaxClock
    /\ clock' = clock + 1
    /\ UNCHANGED <<poolVars, httpVars, sgVars>>
    /\ UNCHANGED <<prog, heap, users, held, origin, passed, svcPc, svcArgs, svcRet>>

ServiceNext ==
    \/ \E c \in Callers, e \in Emails \cup {"", "not-an-email"}, n \in {"Original Name", ""} :
          CreateUserCheck(c, e, n)
    \/ \E c \in Callers : CreateUserStore(c)
    \/ Tick

\* concurrent callers of CreateUser
ServiceSpec == ServiceInit /\ [][ServiceNext]_vars

Next == PoolNext \/ HttpNext \/ SafeGoNext

Spec == Init /\ [][Next]_vars

\* --------------------------------------------------------- derived values
\* the results the consumer has taken from the channel
received == SubSeq(published, 1, Len(published) - Len(results))

AllWorkersExited ==
    /\ startIdx = numWorkers
    /\ \A w \in Workers : pc[w] = "exited"

ResultsFor(j) == {i \in 1 .. Len(published) : published[i].Job = j}
CallsFor(j) == {c \in BagToSet(handlerCalls) : c.job = j}
SubmittedJobs == {submitted[i] : i \in 1 .. Len(submitted)}

\* jobs whose processJobWithRecovery call has returned
InHand == {w \in Workers : pc[w] = "send"}
ProcessedJobs ==
    {published[i].Job : i \in 1 .. Len(published)} \cup {job[w] : w \in InHand}
\* the results built so far: published, or about to be sent
BuiltResults ==
    {published[i] : i \in 1 .. Len(published)} \cup {result[w] : w \in InHand}

AllPublished ==
    /\ Len(published) = Len(submitted)
    /\ \A j \in SubmittedJobs : Cardinality(ResultsFor(j)) = 1

\* where a job is: positions in the queue, workers that hold it
QueuedAt(j) == {i \in 1 .. Len(jobs) : jobs[i] = j}
HeldBy(j) == {w \in Workers : pc[w] \in {"process", "send"} /\ job[w] = j}

\* ================================================================= claims

\* C1 (total accounting): at no time is a result published for a job that
\* was not submitted or a second result for the same job, and once a started
\* pool has been closed (no cancellation, results consumed) every submitted
\* job eventually has exactly one published result.
C1_TotalAccounting ==
    /\ [](/\ \A i \in 1 .. Len(published) : published[i].Job \in SubmittedJobs
          /\ \A j \in SubmittedJobs : Cardinality(ResultsFor(j)) <= 1)
    /\ (closed /\ startIdx = numWorkers) ~> AllPublished

C1_Witness ==
    /\ closed
    /\ ~ctxDone
    /\ Len(submitted) = MaxJobs
    /\ MaxJobs > ResultsCap
    /\ AllPublished
    /\ results = <<>>

\* C2 (fault isolation): a worker returns only because it saw the
\* cancellation or the closed, drained queue, never because a job panicked;
\* a result has IsPanic exactly when its job panics, and the result of a job
\* that neither panics nor fails has no error; once the pool has drained,
\* every submitted job has exactly one result.
C2_FaultIsolation ==
    /\ \A w \in WorkerIds :
          pc[w] = "exited" => (w \in observedDone \/ (closed /\ jobs = <<>>))
    /\ \A r \in BuiltResults :
          /\ r.Job \in SubmittedJobs
          /\ r.IsPanic <=> r.Job.Data = "panic"
          /\ r.Job.Data = "job" => r.Err = NilErr
    /\ (AllWorkersExited /\ ~ctxDone) => AllPublished

\* a worker that recovered a panic has published the result and is running a
\* later job, in a pool of several workers
C2_Witness ==
    /\ numWorkers = MaxWorkers
    /\ \E w \in Workers :
          /\ pc[w] \in {"process", "send"}
          /\ job[w].Data = "job"
          /\ \E i \in 1 .. Len(published) :
                /\ published[i].IsPanic
                /\ published[i].PanicInfo.w = w
                /\ published[i].Job.ID < job[w].ID

\* C3 (concurrent multi-panic): the panic handler has been invoked exactly
\* once for every panicking job that has been processed, with that job, the
\* id of the worker that ran it and the panic value, and never for another
\* job; every result of a panicking job has IsPanic set.
C3_MultiPanic ==
    /\ \A c \in BagToSet(handlerCalls) :
          /\ CopiesIn(c, handlerCalls) = 1
          /\ c.job \in ProcessedJobs
          /\ c.job.Data = "panic"
          /\ c.recovered = Str("Worker %d panicked on job %d", c.workerID, c.job.ID)
          /\ \A w \in InHand : job[w] = c.job => c.workerID = w
          /\ \A r \in BuiltResults : r.Job = c.job => r.PanicInfo.w = c.workerID
    /\ \A j \in ProcessedJobs : j.Data = "panic" => Cardinality(CallsFor(j)) = 1
    /\ BagCardinality(handlerCalls)
          = Cardinality({j \in ProcessedJobs : j.Data = "panic"})
    /\ \A r \in BuiltResults : r.Job.Data = "panic" => r.IsPanic

\* more panicking jobs than workers, all of them published
C3_Witness ==
    /\ Len(submitted) = MaxJobs
    /\ Len(submitted) > numWorkers
    /\ \A j \in SubmittedJobs : j.Data = "panic"
    /\ AllPublished
    /\ \A i \in 1 .. Len(published) : published[i].IsPanic
    /\ BagCardinality(handlerCalls) = MaxJobs

\* C4 (drain semantics): without cancellation, when Wait has returned the
\* queue is closed and empty, every worker has exited and every submitted
\* job has its published result; and a Wait that is pending on a closed pool
\* whose results have all been taken does return.
C4_Drain ==
    /\ [](waitState = "returned" =>
            /\ closed
            /\ jobs = <<>>
            /\ AllWorkersExited
            /\ AllPublished)
    /\ (waitState = "waiting" /\ closed /\ Len(received) = Len(submitted))
          ~> (waitState = "returned")

C4_Witness ==
    /\ waitState = "returned"
    /\ numWorkers = MaxWorkers
    /\ Len(submitted) = MaxJobs
    /\ results = <<>>

\* ---- HTTP server: what a request's handler does, from its input alone
PanicOf(r) == Handle(reqHandler[r]).panicValue
\* the value is the sentinel or an error that wraps it
WrapsSentinel(v) ==
    v.isError /\ \E i \in DOMAIN v.chain : v.chain[i] = "http.ErrAbortHandler"
NonSentinelPanic(r) == PanicOf(r) # NoValue /\ ~WrapsSentinel(PanicOf(r))
\* the handler of the request has run
Ran(r) == reqPc[r] \notin {"idle", "handler"}
CallsOf(r) == {c \in BagToSet(httpCalls) : c.req = r}
ErrorResponse ==
    [code |-> StatusInternalServerError,
     header |-> {<<"Content-Type", "application/json">>},
     body |-> <<ErrorBody>>]

\* C5 (sentinel re-raise): a request whose handler panicked with the
\* sentinel, or with an error wrapping it, is never answered by the
\* middleware: the recovered value itself leaves the call as a panic and
\* every call on the ResponseWriter is the handler's.
C5_SentinelReraise ==
    \A r \in ReqIds :
        (Ran(r) /\ WrapsSentinel(PanicOf(r))) =>
            /\ reqPc[r] \in {"deferred", "panicked"}
            /\ reqPc[r] = "panicked" => reqEscaped[r] = PanicOf(r)
            /\ \A i \in 1 .. Len(reqOps[r]) : reqOps[r][i].by = "handler"
            /\ reqOps[r] = Handle(reqHandler[r]).ops

C5_Witness ==
    \E r \in ReqIds :
        /\ reqHandler[r].name = "panicWrappedAbort"
        /\ reqPc[r] = "panicked"
        /\ reqEscaped[r] = Wrap("wrapped", ErrAbortHandler)
        /\ Response(reqOps[r]) = [code |-> StatusOK, header |-> {}, body |-> <<>>]

\* C6 (non-sentinel conversion): a request whose handler panicked with a
\* value that is not the sentinel never panics out of the call; the panic
\* handler is invoked exactly once for it, with the panic value and the
\* request; and the response of a route of the server (or of any handler
\* that had written nothing) is 500 with the JSON error body.
C6_NonSentinelConversion ==
    \A r \in ReqIds :
        (Ran(r) /\ NonSentinelPanic(r)) =>
            /\ reqPc[r] # "panicked"
            /\ reqEscaped[r] = NoValue
            /\ reqPc[r] \in {"respond", "done"} =>
                  /\ CallsOf(r) = {[recovered |-> PanicOf(r), req |-> r,
                                    path |-> reqHandler[r].path]}
                  /\ \A c \in CallsOf(r) : CopiesIn(c, httpCalls) = 1
            /\ (/\ reqPc[r] = "done"
                /\ \/ reqHandler[r].path \in Paths
                   \/ Handle(reqHandler[r]).ops = <<>>)
                  => Response(reqOps[r]) = ErrorResponse

C6_Witness ==
    \E r \in ReqIds :
        /\ reqHandler[r] = Request("handleJSON", "/json", "trigger")
        /\ reqPc[r] = "done"
        /\ Response(reqOps[r]) = ErrorResponse
        /\ BagCardinality(httpCalls) = 1

\* C7 (callback not invoked on success): in the pool the panic handler has
\* been invoked only for jobs that panic, once per processed panicking job;
\* in the server it has been invoked only for requests whose handler
\* panicked with a non-sentinel value, once per such request that reached
\* the handler call.
C7_NoCallbackOnSuccess ==
    /\ \A c \in BagToSet(handlerCalls) : c.job.Data = "panic"
    /\ BagCardinality(handlerCalls)
          = Cardinality({j \in ProcessedJobs : j.Data = "panic"})
    /\ \A c \in BagToSet(httpCalls) : NonSentinelPanic(c.req)
    /\ BagCardinality(httpCalls)
          = Cardinality({r \in ReqIds : /\ reqPc[r] \in {"respond", "done"}
                                        /\ NonSentinelPanic(r)})

\* a job that failed and a job that succeeded are published, no invocation
C7_Witness ==
    /\ prog = "pool"
    /\ AllPublished
    /\ \E i \in 1 .. Len(published) :
          published[i].Job.Data = "error" /\ published[i].Err # NilErr
    /\ \E i \in 1 .. Len(published) : published[i].Job.Data = "job"
    /\ handlerCalls = EmptyBag

\* the same case in the server: invalid JSON answered with 400, no invocation
C7_ServerCase ==
    /\ prog = "http"
    /\ \E r \in ReqIds :
          /\ reqHandler[r] = Request("handleJSON", "/json", "invalid")
          /\ reqPc[r] = "done"
          /\ Response(reqOps[r]).code = StatusBadRequest
    /\ httpCalls = EmptyBag

\* C8 (outcome record invariant): a result with IsPanic has an error; a
\* result has PanicInfo exactly when it has IsPanic; the Job of a result is
\* a submitted job, and it is the job its worker dequeued.
C8_OutcomeRecord ==
    /\ \A r \in BuiltResults :
          /\ r.IsPanic => r.Err # NilErr
          /\ r.PanicInfo # EmptyStr <=> r.IsPanic
          /\ r.Job \in SubmittedJobs
    /\ \A w \in InHand : result[w].Job = job[w]

C8_Witness ==
    /\ \E i \in 1 .. Len(published) :
          /\ published[i].IsPanic
          /\ published[i].Err # NilErr
          /\ published[i].PanicInfo # EmptyStr
    /\ \E i \in 1 .. Len(published) :
          /\ ~published[i].IsPanic
          /\ published[i].Err # NilErr
          /\ published[i].PanicInfo = EmptyStr

\* C9 (concurrent request isolation): whatever the other requests do, the
\* calls on a finished request's ResponseWriter are those of its own handler
\* followed, if that handler panicked, by the error response; a request of
\* /panic ends with the 500 response and never panics out; the panic handler
\* has been invoked exactly once for each finished panicking request, so K
\* times once K panicking requests have returned.
C9_ConcurrentIsolation ==
    /\ \A r \in ReqIds :
          reqPc[r] = "done" =>
              reqOps[r] = Handle(reqHandler[r]).ops
                            \o (IF NonSentinelPanic(r) THEN ErrorResponseOps
                                ELSE <<>>)
    /\ \A r \in ReqIds :
          (Ran(r) /\ reqHandler[r].name = "handlePanic") =>
              /\ reqPc[r] # "panicked"
              /\ reqPc[r] = "done" =>
                    /\ Response(reqOps[r]) = ErrorResponse
                    /\ Cardinality(CallsOf(r)) = 1
                    /\ \A c \in CallsOf(r) : CopiesIn(c, httpCalls) = 1
    /\ (\A r \in ReqIds : reqPc[r] = "done" /\ NonSentinelPanic(r))
          => BagCardinality(httpCalls) = MaxRequests

C9_Witness ==
    /\ MaxRequests >= 2
    /\ \A r \in ReqIds : reqHandler[r].name = "handlePanic" /\ reqPc[r] = "done"
    /\ BagCardinality(httpCalls) = MaxRequests

\* C10, as claimed (cancellation drops queued work): once the cancellation
\* signal has fired no worker dequeues a job.
C10_Original ==
    [][ctxDone =>
          /\ Len(jobs') >= Len(jobs)
          /\ \A w \in WorkerIds : pc[w] = "select" => pc'[w] # "process"]_vars

\* C10, amended: a worker that has taken the ctx.Done() case has returned and
\* never dequeues or publishes again; once every worker has done so, no job
\* leaves the queue and no result is published any more.
C10_Amended ==
    [][/\ \A w \in WorkerIds :
            w \in observedDone =>
                pc'[w] = "exited" /\ job'[w] = job[w] /\ result'[w] = result[w]
       /\ (startIdx = numWorkers /\ Workers \subseteq observedDone) =>
            /\ published' = published
            /\ Len(jobs') >= Len(jobs)]_vars

\* every worker has observed the cancellation and a job is left in the queue
C10_Witness ==
    /\ startIdx = numWorkers
    /\ Workers \subseteq observedDone
    /\ numWorkers = MaxWorkers
    /\ jobs # <<>>

\* C11, as claimed (cancellation terminates the pool): once the signal has
\* fired every worker eventually exits and a pending Wait eventually returns.
C11_Original ==
    /\ ctxDone ~> AllWorkersExited
    /\ (ctxDone /\ waitState = "waiting") ~> (waitState = "returned")

\* C11, amended: the same, provided the consumer goes on receiving from the
\* results channel, whether or not the queue was closed or still holds jobs;
\* a worker exits only from its select, never from the middle of a job: a job
\* that was in a worker's hands when the signal fired stays there until the
\* worker sends its result, and that send publishes the result.
C11_Amended ==
    /\ WF_vars(Receive) =>
          /\ ctxDone ~> AllWorkersExited
          /\ (ctxDone /\ waitState = "waiting") ~> (waitState = "returned")
    /\ [](\A j \in inFlight :
            \E w \in Workers : pc[w] \in {"process", "send"} /\ job[w] = j)
    /\ [][\A w \in WorkerIds :
            /\ pc'[w] = "exited" => pc[w] \in {"select", "exited"}
            /\ (pc[w] = "send" /\ pc'[w] # "send") =>
                  /\ result[w].Job = job[w]
                  /\ published' = Append(published, result[w])]_vars

\* cancelled without Close, a job left in the queue: one worker has exited on
\* the signal while another, in the middle of a job when the signal fired,
\* is about to send that job's result; Wait is pending
C11_Witness ==
    /\ ctxDone
    /\ ~closed
    /\ jobs # <<>>
    /\ waitState = "waiting"
    /\ observedDone # {}
    /\ \E w \in Workers : pc[w] = "send" /\ job[w] \in inFlight

\* C12 (exactly-once consumption): every submitted job is in exactly one
\* place: once in the queue, or in the hands of one worker, or published
\* once; a job that panics has at most one handler invocation; the result a
\* worker is about to send is the one result of the job it dequeued; every
\* published result is of a submitted job; and a dequeue gives the head of
\* the queue to one worker, removes it from the queue and changes no other
\* worker.
C12_ExactlyOnce ==
    /\ [](\A j \in SubmittedJobs :
            Cardinality(QueuedAt(j)) + Cardinality(HeldBy(j))
                + Cardinality(ResultsFor(j)) = 1)
    /\ [](\A i \in 1 .. Len(published) : published[i].Job \in SubmittedJobs)
    /\ [](\A w \in InHand : result[w].Job = job[w])
    /\ [](\A c \in BagToSet(handlerCalls) :
            CopiesIn(c, handlerCalls) = 1 /\ Cardinality(CallsFor(c.job)) = 1)
    /\ [][\A w \in WorkerIds :
            (pc[w] = "select" /\ pc'[w] = "process") =>
                /\ job'[w] = Head(jobs)
                /\ jobs' = Tail(jobs)
                /\ \A v \in WorkerIds \ {w} : pc'[v] = pc[v] /\ job'[v] = job[v]]_vars

\* every worker of a pool of several holds a job of its own, all jobs taken
C12_Witness ==
    /\ numWorkers = MaxWorkers
    /\ MaxWorkers >= 2
    /\ Len(submitted) = MaxJobs
    /\ jobs = <<>>
    /\ \A w \in Workers : pc[w] \in {"process", "send"}
    /\ \A v, w \in Workers : v # w => job[v] # job[w]

\* C13 (bounded-queue backpressure): the queue never holds more than JobsCap
\* jobs; on the open pool a Submit can complete whenever the queue holds
\* fewer than JobsCap jobs and cannot while it holds JobsCap; a Submit that
\* completes appends its job to a queue that had room; and the queue shrinks
\* only by a worker's dequeue, so a Submit blocked on the full queue
\* completes only after one.
C13_Backpressure ==
    /\ [](Len(jobs) <= JobsCap)
    /\ []((~closed /\ Len(submitted) < backlog + MaxJobs) =>
            ((Len(jobs) < JobsCap) <=> ENABLED (\E d \in JobData : Submit(d))))
    /\ [][Len(submitted') > Len(submitted) =>
            /\ Len(jobs) < JobsCap
            /\ jobs' = Append(jobs, submitted'[Len(submitted')])]_vars
    /\ [][Len(jobs') < Len(jobs) =>
            \E w \in Workers : pc[w] = "select" /\ pc'[w] = "process"]_vars

\* a Submit has completed on a queue that had been full: the queue holds
\* JobsCap jobs again and the worker holds the job it took out in between
C13_Witness ==
    /\ Len(jobs) = JobsCap
    /\ Len(submitted) = backlog + 2
    /\ \E w \in Workers : pc[w] \in {"process", "send"} /\ job[w] = submitted[1]

\* C14 (Close stops intake without aborting): without cancellation, once
\* the queue is closed it stays closed, no job enters it and none is
\* accepted; a worker does not return while the closed queue holds a job, so
\* when every worker has exited every submitted job has its result, and on a
\* started pool (no Submit having panicked) every submitted job eventually
\* has it; a Submit on the closed queue cannot complete: it panics, and that
\* step leaves the queue and the accepted jobs as they were.
C14_CloseStopsIntake ==
    /\ [][closed =>
            /\ closed'
            /\ submitted' = submitted
            /\ jobs' = jobs \/ jobs' = Tail(jobs)]_vars
    /\ [][\A w \in WorkerIds :
            (pc[w] # "exited" /\ pc'[w] = "exited") => (closed /\ jobs = <<>>)]_vars
    /\ []((closed /\ AllWorkersExited) => AllPublished)
    /\ [](closed => ~ENABLED (\E d \in JobData : Submit(d)))
    /\ []((closed /\ ~submitPanic) => ENABLED SubmitAfterClose)
    /\ [][(~submitPanic /\ submitPanic') =>
            (closed /\ jobs' = jobs /\ submitted' = submitted)]_vars
    /\ [](~submitPanic) => ((closed /\ startIdx = numWorkers) ~> AllPublished)

\* a Submit panicked on the closed queue while a job was still queued and
\* another in a worker's hands; both have their result now and nothing else
\* was accepted
C14_Witness ==
    /\ closed
    /\ submitPanic
    /\ Len(submitted) = MaxJobs
    /\ AllPublished
    /\ AllWorkersExited

\* C15 (safe launch is fire-and-forget), for SafeGo of the worker pool
\* package: the call can always return, and returns with the unit of work not
\* yet started on the new goroutine; the steps of that goroutine outside the
\* channel done leave the caller where it is; a unit that returns normally
\* causes no handler invocation and no log line; a panic of the unit is never
\* re-raised, and when the goroutine has finished it has been passed to the
\* handler exactly once (never before), or, with a nil handler, logged once
\* and passed to nothing.
C15_FireAndForget ==
    /\ []((prog = "safego" /\ sgCaller = "start") => ENABLED SafeGo)
    /\ [][(sgCaller = "start" /\ sgCaller' = "returned") =>
            (sgPc' = "fn" /\ sgCalls' = <<>> /\ sgLog' = <<>>)]_vars
    /\ [][(sgPc \in {"fn", "unwound"} /\ sgPc' # sgPc) =>
            sgCaller' = sgCaller]_vars
    /\ [](sgImpl = "SafeGo" =>
            /\ sgPc # "crashed"
            /\ sgFn.value = NoValue => (sgCalls = <<>> /\ sgLog = <<>>)
            /\ sgPc # "finished" => (sgCalls = <<>> /\ sgLog = <<>>)
            /\ (sgPc = "finished" /\ sgFn.value # NoValue) =>
                  IF sgHasHandler
                  THEN sgCalls = <<sgFn.value>> /\ sgLog = <<>>
                  ELSE sgCalls = <<>> /\ sgLog = <<sgFn.value>>)

\* the unit has panicked and the handler has been called with the value,
\* while the caller has gone on since SafeGo returned
C15_Witness ==
    /\ sgImpl = "SafeGo"
    /\ sgFn = Fn("panic", StrValue("test panic"))
    /\ sgHasHandler
    /\ sgPc = "finished"
    /\ sgCalls = <<StrValue("test panic")>>
    /\ sgCaller = "returned"

\* C16, as claimed (handler before completion): when the unit of work of
\* TestSafeGo_WithPanic is launched with SafeGo and a custom handler, the
\* handler has been invoked by the time the caller has received from done,
\* and the caller then reads that it was.
C16_HandlerBeforeCompletion ==
    (/\ sgImpl = "SafeGo"
     /\ sgHasHandler
     /\ sgFn.kind = "deferDonePanic") =>
        /\ sgCaller \in {"received", "checked"} => sgCalls = <<sgFn.value>>
        /\ sgCaller = "checked" => sgSeen = "called"

\* C17 (middleware transparency): for a request whose handler returned
\* normally, the calls on the ResponseWriter are exactly the handler's, in
\* its order, so the status, the headers and the body of the response are
\* those the handler wrote (400 for the invalid JSON body); no panic handler
\* invocation is made for it and nothing leaves the call as a panic.
C17_Transparency ==
    \A r \in ReqIds :
        (Ran(r) /\ PanicOf(r) = NoValue) =>
            /\ reqPc[r] \in {"deferred", "done"}
            /\ reqOps[r] = Handle(reqHandler[r]).ops
            /\ \A i \in 1 .. Len(reqOps[r]) : reqOps[r][i].by = "handler"
            /\ Response(reqOps[r]) = Response(Handle(reqHandler[r]).ops)
            /\ reqHandler[r] = Request("handleJSON", "/json", "invalid") =>
                  Response(reqOps[r]).code = StatusBadRequest
            /\ reqHandler[r].name = "handleHealth" =>
                  Response(reqOps[r]).code = StatusOK
            /\ CallsOf(r) = {}
            /\ reqEscaped[r] = NoValue

\* a request answered 400 by its handler and one answered 200 have returned
\* through the middleware
C17_Witness ==
    /\ \E r \in ReqIds :
          /\ reqHandler[r] = Request("handleJSON", "/json", "invalid")
          /\ reqPc[r] = "done"
          /\ Response(reqOps[r]).code = StatusBadRequest
          /\ Response(reqOps[r]).body # <<>>
    /\ \E r \in ReqIds :
          /\ reqHandler[r].name = "handleHealth"
          /\ reqPc[r] = "done"
          /\ Response(reqOps[r]).code = StatusOK

\* the texts a panic value can be printed as
TextsOf(v) == {v.chain[i] : i \in DOMAIN v.chain}

\* C18 (no diagnostic leak): two requests whose handlers make the same calls
\* on the ResponseWriter and panic with non-sentinel values, equal or not,
\* end with the same calls made by the middleware and so with the same
\* status, headers and body; no argument of a call the middleware makes is a
\* text of the panic value; the value is what the panic handler was invoked
\* with.
C18_NoLeak ==
    /\ \A r1, r2 \in ReqIds :
          (/\ reqPc[r1] = "done" /\ NonSentinelPanic(r1)
           /\ reqPc[r2] = "done" /\ NonSentinelPanic(r2)
           /\ Handle(reqHandler[r1]).ops = Handle(reqHandler[r2]).ops) =>
              /\ reqOps[r1] = reqOps[r2]
              /\ Response(reqOps[r1]) = Response(reqOps[r2])
    /\ \A r \in ReqIds :
          (reqPc[r] = "done" /\ NonSentinelPanic(r)) =>
              /\ \A i \in 1 .. Len(reqOps[r]) :
                    reqOps[r][i].by = "middleware" =>
                        /\ reqOps[r][i].val \notin TextsOf(PanicOf(r))
                        /\ reqOps[r][i].key \notin TextsOf(PanicOf(r))
              /\ \A c \in CallsOf(r) : c.recovered = PanicOf(r)
              /\ CallsOf(r) # {}

\* two finished requests that panicked with different values, a string and
\* an error, have the same response
C18_Witness ==
    \E r1, r2 \in ReqIds :
        /\ reqHandler[r1].name = "panicInt"
        /\ reqHandler[r2].name = "panicError"
        /\ reqPc[r1] = "done"
        /\ reqPc[r2] = "done"
        /\ PanicOf(r1) # PanicOf(r2)
        /\ Response(reqOps[r1]) = ErrorResponse
        /\ Response(reqOps[r2]) = ErrorResponse
        /\ BagCardinality(httpCalls) = 2

\* C19 (the sentinel bypasses every side effect): the step of the deferred
\* function that finds the sentinel, or an error wrapping it, re-raises that
\* value and does nothing else: no panic handler invocation and no call on
\* the ResponseWriter; so a request whose handler panicked with the sentinel
\* never has an invocation, nor a call made by the middleware.
C19_SentinelBypass ==
    /\ [][\A r \in ReqIds :
            (/\ reqPc[r] = "deferred"
             /\ WrapsSentinel(reqRec[r])
             /\ reqPc'[r] # "deferred") =>
                /\ reqPc'[r] = "panicked"
                /\ reqEscaped'[r] = reqRec[r]
                /\ reqOps'[r] = reqOps[r]
                /\ httpCalls' = httpCalls]_vars
    /\ [](\A r \in ReqIds :
            (Ran(r) /\ WrapsSentinel(PanicOf(r))) =>
                /\ CallsOf(r) = {}
                /\ reqPc[r] # "respond"
                /\ \A i \in 1 .. Len(reqOps[r]) : reqOps[r][i].by # "middleware")

\* the sentinel was re-raised for a handler that had already written: no
\* invocation at all, the response is the handler's partial one
C19_Witness ==
    \E r \in ReqIds :
        /\ reqHandler[r].name = "writeThenAbort"
        /\ reqPc[r] = "panicked"
        /\ reqEscaped[r] = ErrAbortHandler
        /\ httpCalls = EmptyBag
        /\ Response(reqOps[r]) = [code |-> StatusOK, header |-> {},
                                   body |-> <<"partial">>]

\* the deferred function of the helper has run for a unit that panicked
Handled == sgPc \in {"finished", "crashed"} /\ sgFn.value # NoValue

\* the helper re-raised the value; it was not given to the callback
Reraised ==
    /\ sgPc = "crashed"
    /\ sgPanicking = sgFn.value
    /\ sgCalls = <<>>
    /\ sgLog = <<>>

\* the value was given to the callback, or logged for want of one, and not
\* re-raised
PassedOn ==
    /\ sgPc = "finished"
    /\ sgPanicking = NoValue
    /\ IF sgHasHandler
       THEN sgCalls = <<sgFn.value>> /\ sgLog = <<>>
       ELSE sgCalls = <<>> /\ sgLog = <<sgFn.value>>

\* C20, as claimed (sentinel contract of the safe launch helper): SafeGo and
\* safeGo alike re-raise a panic value that is or wraps the sentinel without
\* giving it to the callback, and give every other panic value to the
\* callback (or log it) without re-raising it.
C20_Original ==
    Handled => IF WrapsSentinel(sgFn.value) THEN Reraised ELSE PassedOn

\* C20, amended: safeGo of the HTTP server does so; SafeGo of the worker pool
\* package gives every panic value, the sentinel included, to the callback
\* (or logs it) and re-raises none.
C20_Amended ==
    Handled =>
        IF sgImpl = "safeGo" /\ WrapsSentinel(sgFn.value)
        THEN Reraised ELSE PassedOn

\* safeGo has re-raised an error that wraps the sentinel, callback untouched
C20_Witness ==
    /\ sgImpl = "safeGo"
    /\ sgHasHandler
    /\ sgFn.value = Wrap("wrapped", ErrAbortHandler)
    /\ Reraised

\* the same value in SafeGo: given to the callback, not re-raised
C20_PoolCase ==
    /\ sgImpl = "SafeGo"
    /\ sgHasHandler
    /\ sgFn.value = Wrap("wrapped", ErrAbortHandler)
    /\ PassedOn

\* C21 (background work is isolated from the request): a request of /slow
\* whose handler has run has the handler's 200 response and no panic
\* handler invocation, whatever the background goroutine has done so far,
\* and its middleware can return while that goroutine is still running; the
\* step in which the background unit's panic is recovered adds one
\* invocation of the callback given to safeGo, with the panic value, and
\* changes no request's position, response calls or re-raised value and no
\* invocation of the server's panic handler; only /slow starts a goroutine.
C21_BackgroundIsolation ==
    /\ [](\A r \in ReqIds :
            /\ bgPc[r] # "none" => (Ran(r) /\ reqHandler[r].name = "handleSlow")
            /\ (Ran(r) /\ reqHandler[r].name = "handleSlow") =>
                  /\ bgPc[r] \in {"running", "done"}
                  /\ reqPc[r] \in {"deferred", "done"}
                  /\ reqPc[r] = "deferred" => ENABLED Recover(r)
                  /\ reqOps[r] = Handle(reqHandler[r]).ops
                  /\ Response(reqOps[r]).code = StatusOK
                  /\ CallsOf(r) = {}
                  /\ CopiesIn([recovered |-> BackgroundPanic, req |-> r], bgCalls)
                        = (IF bgPc[r] = "done" THEN 1 ELSE 0))
    /\ [][\A r \in ReqIds :
            (bgPc[r] = "running" /\ bgPc'[r] = "done") =>
                /\ reqPc' = reqPc
                /\ reqOps' = reqOps
                /\ reqEscaped' = reqEscaped
                /\ httpCalls' = httpCalls
                /\ bgCalls' = bgCalls
                                (+) SetToBag({[recovered |-> BackgroundPanic,
                                               req |-> r]})]_vars

\* the background unit of a /slow request panicked while another request was
\* between its handler and its deferred function; both requests have ended
\* with their own responses, and only the callback of safeGo was invoked
C21_Witness ==
    \E r1, r2 \in ReqIds :
        /\ reqHandler[r1].name = "handleSlow"
        /\ reqPc[r1] = "done"
        /\ bgPc[r1] = "done"
        /\ Response(reqOps[r1]).code = StatusOK
        /\ reqHandler[r2].name = "handleHealth"
        /\ reqPc[r2] = "done"
        /\ Response(reqOps[r2]) = Response(Handle(reqHandler[r2]).ops)
        /\ httpCalls = EmptyBag
        /\ BagCardinality(bgCalls) = 1

\* the middleware of a /slow request has returned, the unit is still running
C21_NotWaiting ==
    \E r \in ReqIds :
        /\ reqHandler[r].name = "handleSlow"
        /\ reqPc[r] = "done"
        /\ bgPc[r] = "running"

\* ---------------------------------------------------------------------
\* C22: in the pool of package before, a job that panics terminates only the
\* goroutine of the worker that runs it: every other worker of the pool, and
\* the program, keep running.
C22_OnlyWorkerDies ==
    \A w \in Workers :
        pc[w] = "killed" => (job[w] # NoJob /\ job[w].Data = "panic")

\* the state the documentation describes is passed through: one worker is in
\* a panic, the other still runs and the consumer has a result of another job
C22_PanicSeen ==
    /\ prog = "before"
    /\ \E w, v \in Workers : pc[w] = "panicked" /\ pc[v] = "select"
    /\ Len(published) = 1
    /\ results = <<>>

\* the user each key of the repository stands for: GetByID(id) returns a copy
\* of StoredView[id], or ErrUserNotFound for a key outside the domain
StoredView == [id \in DOMAIN users |-> heap[users[id]]]

\* ---------------------------------------------------------------------
\* C23: what the repository stores, and so what GetByID returns, changes only
\* in a step of Create, Update or Delete; no caller holds a pointer to a
\* stored User, so an assignment to a User a caller passed in or got back
\* leaves it as it was.
C23_DataIsolation ==
    /\ [](prog = "repo" =>
            \A id \in DOMAIN users : users[id] \notin held /\ StoredView[id].ID = id)
    /\ [][StoredView' # StoredView =>
             \/ \E a \in held : Create(a)
             \/ \E a \in held : Update(a)
             \/ \E id \in UserIds : Delete(id)]_vars
    /\ [][(\E a \in held :
               \/ \E v \in UserIds : Mutate(a, "ID", v)
               \/ \E v \in Emails : Mutate(a, "Email", v)
               \/ \E v \in Names : Mutate(a, "Name", v))
             => StoredView' = StoredView]_vars

\* a caller changed the name in the User it passed to Create and in the User
\* GetByID returned; the stored user has the original name
C23_Witness ==
    /\ prog = "repo"
    /\ \E id \in DOMAIN users, a, b \in held :
        /\ a \in passed /\ origin[a] = "caller" /\ heap[a].ID = id
        /\ origin[b] = "GetByID" /\ heap[b].ID = id
        /\ heap[a].Name = "Modified Name"
        /\ heap[b].Name = "Modified Name"
        /\ StoredView[id].Name = "Original Name"

\* ---------------------------------------------------------------------
\* C30: no two stored users have the same email, whatever the interleaving of
\* the concurrent CreateUser calls.
C30_EmailUnique ==
    \A i, j \in DOMAIN users : i # j => StoredView[i].Email # StoredView[j].Email

\* the workers Start has started, the workers that hold a job, and the number
\* of jobs that were dequeued and whose result is not yet published
Started == {w \in WorkerIds : pc[w] # "unborn"}
Busy == {w \in WorkerIds : pc[w] \in {"process", "send"}}
Outstanding == Len(submitted) - Len(jobs) - Len(published)

\* ---------------------------------------------------------------------
\* C24: Start starts exactly numWorkers workers; every job that is dequeued
\* and not yet published is in the hands of one worker, a worker holds at
\* most one job and dequeues only when the result of its previous job has
\* been published, so at most numWorkers jobs are dequeued and unpublished.
C24_BoundedParallelism ==
    /\ [](prog = "pool" =>
            /\ Started \subseteq Workers
            /\ Cardinality(Started) = startIdx
            /\ (startIdx = numWorkers => Started = Workers)
            /\ Outstanding = Cardinality(Busy)
            /\ Outstanding <= numWorkers
            /\ \A w \in WorkerIds : job[w] # NoJob <=> w \in Busy
            /\ \A w, v \in Busy : w # v => job[w] # job[v])
    /\ [][\A w \in WorkerIds :
             WorkerRecv(w) => (w \notin Busy /\ Outstanding < numWorkers
                               /\ Outstanding' = Outstanding + 1)]_vars

\* the single worker of a pool holds the result of the first job, not yet
\* published, and the second job waits in the queue
C24_Witness ==
    /\ prog = "pool"
    /\ startIdx = numWorkers
    /\ numWorkers = 1
    /\ pc[0] = "send"
    /\ Len(jobs) = 1
    /\ Outstanding = numWorkers

\* both workers of a pool of two hold a job
C24_AllBusy == prog = "pool" /\ numWorkers = 2 /\ Busy = Workers

\* the jobs a Submit of the model can enqueue
AllJobs == {Job(i, d) : i \in 1 .. MaxJobs, d \in JobData}

\* ---------------------------------------------------------------------
\* C25: a worker that has dequeued a job leaves the job only by publishing
\* its JobResult, whether or not the cancellation signal has fired, and it
\* observes the signal only with no job in hand; if the consumer goes on
\* receiving, every dequeued job gets a published JobResult.
C25_NoPreemption ==
    /\ [][\A w \in Busy :
             \/ w \in Busy' /\ job'[w] = job[w]
             \/ /\ pc[w] = "send"
                /\ result[w].Job = job[w]
                /\ published' = Append(published, result[w])]_vars
    /\ [](\A w \in Busy : ~ENABLED WorkerDone(w))
    /\ WF_vars(Receive) =>
          \A j \in AllJobs : (HeldBy(j) # {}) ~> (ResultsFor(j) # {})

\* the signal fired while a worker was processing a job; the worker has
\* finished the job since and is about to publish its result
C25_Witness ==
    /\ prog = "pool"
    /\ ctxDone
    /\ \E w \in Workers :
        /\ pc[w] = "send"
        /\ job[w] \in inFlight
        /\ result[w].Job = job[w]
        /\ ENABLED WorkerSend(w)
        /\ ~ENABLED WorkerDone(w)

\* ---------------------------------------------------------------------
\* C26: a request whose handler panicked with a value that is not the
\* sentinel, at whatever point, ends with status 500 and the JSON error body
\* as its response, the error body being the last thing written.
C26_ServerErrorAlways ==
    \A r \in ReqIds :
        (Ran(r) /\ NonSentinelPanic(r) /\ reqPc[r] = "done") =>
            /\ Response(reqOps[r]) = ErrorResponse
            /\ reqOps[r][Len(reqOps[r])] = Write("middleware", ErrorBody)

\* the IsPanic results among the first n published ones
PanicResults(n) == {i \in 1 .. n : published[i].IsPanic}

\* ---------------------------------------------------------------------
\* C27: the panic handler has been invoked, and has returned, for a panicking
\* job before the job's JobResult is published: the completed invocations
\* are those of the published IsPanic results and of the IsPanic results
\* workers are about to send, so never fewer than the IsPanic results the
\* consumer has received; a send leaves the invocations alone; and once the
\* result of every submitted job has been received no step adds one.
C27_HandlerBeforePublication ==
    /\ [](prog = "pool" =>
            /\ BagCardinality(handlerCalls)
                  = Cardinality(PanicResults(Len(published)))
                      + Cardinality({w \in InHand : result[w].IsPanic})
            /\ BagCardinality(handlerCalls)
                  >= Cardinality(PanicResults(Len(received)))
            /\ \A i \in PanicResults(Len(published)) :
                  \E c \in BagToSet(handlerCalls) : c.job = published[i].Job)
    /\ [][published' # published => handlerCalls' = handlerCalls]_vars
    /\ [][(Len(received) = Len(submitted)) => handlerCalls' = handlerCalls]_vars

\* the consumer has received the results of two panicking jobs and the
\* handler has been invoked twice
C27_Witness ==
    /\ prog = "pool"
    /\ Len(submitted) = 2
    /\ Len(received) = 2
    /\ Cardinality(PanicResults(Len(received))) = 2
    /\ BagCardinality(handlerCalls) = 2

\* ---------------------------------------------------------------------
\* C29: in a pool of one worker, with no cancellation, the JobResults are
\* published in the order in which their jobs were submitted.
C29_SingleWorkerOrder ==
    (prog = "pool" /\ numWorkers = 1) =>
        /\ Len(published) <= Len(submitted)
        /\ \A i \in 1 .. Len(published) : published[i].Job = submitted[i]

\* a pool of one worker has published the results of two jobs
C29_Witness ==
    /\ prog = "pool"
    /\ numWorkers = 1
    /\ Len(published) = 2
    /\ published[1].Job = submitted[1]
    /\ published[2].Job = submitted[2]
    /\ published[1].Job # published[2].Job

\* in a pool of two workers the result of the second job has been published
\* before that of the first
C29_Reordered ==
    /\ prog = "pool"
    /\ numWorkers = 2
    /\ Len(submitted) = 2
    /\ published # <<>>
    /\ published[1].Job = submitted[2]

\* ---------------------------------------------------------------------
\* C28: a request to the server of package before whose handler does not
\* panic is answered, and its response is the one the server of package
\* after gives to the same request.
C28_SameResponse ==
    prog = "bserver" =>
        \A r \in ReqIds :
            (reqPc[r] # "idle" /\ Handle(reqHandler[r]).panicValue = NoValue) =>
                /\ reqPc[r] \in {"handler", "done"}
                /\ reqPc[r] = "handler" => ENABLED BeforeRunHandler(r)
                /\ reqPc[r] = "done" =>
                      Response(reqOps[r]) = Response(Handle(reqHandler[r]).ops)

\* on a job that does not panic the worker of package before builds the
\* JobResult that processJobWithRecovery of package after returns, and
\* processJobWithRecovery makes no handler invocation
C28_PoolHalf ==
    [][\A w \in WorkerIds :
         (BeforeWorkerProcess(w) /\ job[w].Data # "panic") =>
             /\ result'[w] = processJobWithRecovery(w, job[w]).result
             /\ processJobWithRecovery(w, job[w]).calls = EmptyBag]_vars

\* every request the server of package before has answered got the response
\* of the server of package after
C28_WhileRunning ==
    prog = "bserver" =>
        \A r \in ReqIds :
            reqPc[r] = "done" => Response(reqOps[r]) = Response(Handle(reqHandler[r]).ops)
====
